---- MODULE Spec2Model ----
(***************************************************************************)
(* MediaArr: the directory-scan cache, its checkpointed background scan,   *)
(* the scan-start guard, cache derivation, single-entry update,            *)
(* unavailability propagation and thumbnail backfill of src/app.py.        *)
(*                                                                         *)
(* Strings that the code inspects character by character (titles) are      *)
(* given as sequences of code points by Chars; paths are <<root, name>>    *)
(* pairs (os.path.join / os.path.basename); URLs are records.  The cache   *)
(* files hold JSON; the checkpoint files are kept as the dictionaries they *)
(* decode to.  The clock is not modelled: every timestamp is "now".        *)
(***************************************************************************)
EXTENDS Integers, Sequences, FiniteSets, TLC

----------------------------------------------------------------------------
(* Bounds of the model                                                     *)

\* handler invocations (page requests, refresh, toggle, download) per run
MaxOps == 3
\* unhandled exceptions inside a background scan per run
MaxErrors == 1
\* process restarts per run
MaxCrashes == 1
\* concurrent request handlers
NumRequests == 2
\* threads that call the accessors at the same time
NumAccessors == 2
\* background scan threads alive at once
MaxScans == 2
\* background thumbnail threads alive at once
MaxThumbs == 1

----------------------------------------------------------------------------
(* Values                                                                  *)

\* Python's None, and a file that does not exist
None == [none |-> TRUE]

\* ARTWORK_TYPES, in dict order
ARTWORK_TYPES == <<"poster", "logo", "backdrop">>

ArtTypes == {ARTWORK_TYPES[i] : i \in 1..Len(ARTWORK_TYPES)}

MediaTypes == {"movie", "tv"}

\* the extensions every artwork search walks, in order
EXTS == <<"jpg", "jpeg", "png">>

movie_folders == <<"/m1", "/m2">>

tv_folders == <<"/t1">>

Roots == {"/m1", "/m2", "/t1"}

base_folders_of(media_type) == IF media_type = "movie" THEN movie_folders ELSE tv_folders

_get_scan_key(media_type, artwork_type) == <<media_type, artwork_type>>

Keys == {_get_scan_key(m, a) : m \in MediaTypes, a \in ArtTypes}

BATCH_SIZE == 10

\* directory names that occur on the mount
Names == {"The Wire", "Breaking Bad", "alien", "Fargo", "@eaDir", ".hidden",
          "Casino", "Dune", "Heat", "Jaws", "The Omen", "Rocky", "up", "Zodiac",
          "Matrix 1999", "Inception"}

\* media titles that a download request may carry
MediaTitles == {"The Matrix (1999)", "Inception.", "Inceptions", "Heat", "Jaws"}

\* the code points of a name
Chars(t) ==
    CASE t = "The Wire" -> <<84, 104, 101, 32, 87, 105, 114, 101>>
      [] t = "Breaking Bad" -> <<66, 114, 101, 97, 107, 105, 110, 103, 32, 66, 97, 100>>
      [] t = "alien" -> <<97, 108, 105, 101, 110>>
      [] t = "Fargo" -> <<70, 97, 114, 103, 111>>
      [] t = "@eaDir" -> <<64, 101, 97, 68, 105, 114>>
      [] t = ".hidden" -> <<46, 104, 105, 100, 100, 101, 110>>
      [] t = "Casino" -> <<67, 97, 115, 105, 110, 111>>
      [] t = "Dune" -> <<68, 117, 110, 101>>
      [] t = "Heat" -> <<72, 101, 97, 116>>
      [] t = "Jaws" -> <<74, 97, 119, 115>>
      [] t = "The Omen" -> <<84, 104, 101, 32, 79, 109, 101, 110>>
      [] t = "Rocky" -> <<82, 111, 99, 107, 121>>
      [] t = "up" -> <<117, 112>>
      [] t = "Zodiac" -> <<90, 111, 100, 105, 97, 99>>
      [] t = "Matrix 1999" -> <<77, 97, 116, 114, 105, 120, 32, 49, 57, 57, 57>>
      [] t = "Inception" -> <<73, 110, 99, 101, 112, 116, 105, 111, 110>>
      [] t = "The Matrix (1999)" -> <<84, 104, 101, 32, 77, 97, 116, 114, 105, 120, 32, 40, 49, 57, 57, 57, 41>>
      [] t = "Inception." -> <<73, 110, 99, 101, 112, 116, 105, 111, 110, 46>>
      [] t = "Inceptions" -> <<73, 110, 99, 101, 112, 116, 105, 111, 110, 115>>

----------------------------------------------------------------------------
(* String functions                                                        *)

\* str.lower() on one code point (ASCII letters)
LowerChar(c) == IF c >= 65 /\ c <= 90 THEN c + 32 ELSE c

lower(s) == [i \in 1..Len(s) |-> LowerChar(s[i])]

\* the class [a-z0-9]
IsAlnum(c) == (c >= 97 /\ c <= 122) \/ (c >= 48 /\ c <= 57)

\* "the "
THE_ == <<116, 104, 101, 32>>

strip_leading_the(s) ==
    IF Len(s) >= 4 /\ lower(SubSeq(s, 1, 4)) = THE_ THEN SubSeq(s, 5, Len(s)) ELSE s

RECURSIVE SubDash(_, _)
\* re.sub(r'[^a-z0-9]+', '-', s): every maximal run outside the class becomes one dash
SubDash(s, inRun) ==
    IF s = <<>> THEN <<>>
    ELSE IF IsAlnum(Head(s)) THEN <<Head(s)>> \o SubDash(Tail(s), FALSE)
    ELSE IF inRun THEN SubDash(Tail(s), TRUE)
    ELSE <<45>> \o SubDash(Tail(s), TRUE)

RECURSIVE StripDash(_)
\* str.strip('-')
StripDash(s) ==
    IF s = <<>> THEN s
    ELSE IF Head(s) = 45 THEN StripDash(Tail(s))
    ELSE IF s[Len(s)] = 45 THEN StripDash(SubSeq(s, 1, Len(s) - 1))
    ELSE s

\* the dashes stripped before the substitution instead of after it
strip_then_substitute(s) == SubDash(StripDash(lower(s)), FALSE)

generate_clean_id(s) == StripDash(SubDash(lower(s), FALSE))

RECURSIVE StrLeq(_, _)
\* Python's <= on strings: lexicographic by code point
StrLeq(s, t) ==
    IF s = <<>> THEN TRUE
    ELSE IF t = <<>> THEN FALSE
    ELSE IF Head(s) # Head(t) THEN Head(s) < Head(t)
    ELSE StrLeq(Tail(s), Tail(t))

StrLess(s, t) == StrLeq(s, t) /\ s # t

RECURSIVE listing_order(_)
\* the names unsorted, here greatest first
listing_order(S) ==
    IF S = {} THEN <<>>
    ELSE LET last == CHOOSE x \in S : \A y \in S : StrLeq(Chars(y), Chars(x))
         IN  <<last>> \o listing_order(S \ {last})

RECURSIVE SortNames(_)
\* sorted(directories): ascending by code point
SortNames(S) ==
    IF S = {} THEN <<>>
    ELSE LET least == CHOOSE x \in S : \A y \in S : StrLeq(Chars(x), Chars(y))
         IN  <<least>> \o SortNames(S \ {least})

\* key=lambda x: strip_leading_the(x['title'].lower())
SortKey(entry) == strip_leading_the(lower(Chars(entry.title)))

RECURSIVE InsertByKey(_, _)
InsertByKey(sorted, e) ==
    IF sorted = <<>> THEN <<e>>
    ELSE IF StrLess(SortKey(e), SortKey(Head(sorted))) THEN <<e>> \o sorted
    ELSE <<Head(sorted)>> \o InsertByKey(Tail(sorted), e)

\* the list as it stands, in the order it was built
keep_order(list) == list

RECURSIVE SortEntries(_)
\* sorted(media_list, key=...): stable
SortEntries(list) ==
    IF list = <<>> THEN <<>>
    ELSE InsertByKey(SortEntries(SubSeq(list, 1, Len(list) - 1)), list[Len(list)])

----------------------------------------------------------------------------
(* State                                                                   *)

VARIABLES
    dirs,           \* remote mount: root folder -> names it lists
    files,          \* remote mount: media directory path -> file names in it
    cacheFile,      \* scan_cache_<media>_<artwork>.json per key, or None
    ckptFile,       \* scan_checkpoint_<media>_<artwork>.json per key, or None
    unavail,        \* unavailable_artwork.json: the (directory, artwork type) pairs stored true
    thumbCache,     \* local thumbnail cache: (directory, file name) pairs present
    scanLock,       \* _scan_lock: 0 when free, else the request handler holding it
    scanProgress,   \* _scan_progress: key -> progress record, or None
    thumbStarted,   \* _thumb_cache_started
    rq,             \* request handlers running get_artwork_data
    sc,             \* _background_scan threads
    th,             \* _background_cache_thumbnails threads
    env,            \* what the environment may still do (the bounds above)
    seen,           \* history: names a scan of the key has visited since the key's last refresh
    fresh,          \* history: keys refreshed and not requested since
    mapFile,        \* tmdb_directory_mapping.json: "<media>_<id>" key -> entry
    call,           \* history: the last call of an accessor or resolver, with what it returned
    _smb_health,    \* the shared health record of the accessors
    now,            \* time.time(), in seconds
    ac              \* threads inside safe_listdir, safe_exists or safe_isdir

vars == <<dirs, files, cacheFile, ckptFile, unavail, thumbCache, scanLock,
          scanProgress, thumbStarted, rq, sc, th, env, seen, fresh, mapFile, call,
          _smb_health, now, ac>>

AccIds == 1..NumAccessors

\* a thread that is not inside an accessor
IdleAccessor ==
    [pc |-> "idle", fn |-> "", attempt |-> 0, errors |-> 0, wake |-> 0, after |-> "",
     outcome |-> ""]

ReqIds == 1..NumRequests

ScanIds == 1..MaxScans

ThumbIds == 1..MaxThumbs

\* os.path.join(base_folder, media_dir)
path_join(base_folder, media_dir) == <<base_folder, media_dir>>

\* os.path.basename(directory_path)
basename(directory_path) == directory_path[2]

----------------------------------------------------------------------------
(* The resilient accessors.  ok is the outcome of the underlying calls: a  *)
(* transient failure on every attempt makes them degrade to empty / false. *)

safe_listdir_root(base_folder, ok) == IF ok THEN dirs[base_folder] ELSE {}

safe_listdir_dir(media_path, ok) ==
    IF ok /\ media_path \in DOMAIN files THEN files[media_path] ELSE {}

safe_exists_root(base_folder, ok) == ok /\ base_folder \in DOMAIN dirs

\* safe_exists of a file, on the remote files fs
safe_exists_in(fs, directory_path, filename, ok) ==
    ok /\ directory_path \in DOMAIN fs /\ filename \in fs[directory_path]

safe_exists_file(directory_path, filename, ok) ==
    safe_exists_in(files, directory_path, filename, ok)

\* what the outcomes of the remote calls of one step may be: a failure is
\* possible only while the run has transient failures left to spend
Outcomes == IF env.faults > 0 THEN {TRUE, FALSE} ELSE {TRUE}

Spend(field, n) == [env EXCEPT ![field] = @ - n]

----------------------------------------------------------------------------
(* Unavailability store, thumbnail cache                                   *)

is_artwork_unavailable(directory, artwork_type) == <<directory, artwork_type>> \in unavail

\* get_cache_path: the cache file of (directory, filename)
get_cache_path(directory, filename) == <<directory, filename>>

get_cached_artwork_url(directory, filename) ==
    [kind |-> "cache", dir |-> directory, file |-> filename]

artwork_url(directory, filename) ==
    [kind |-> "artwork", dir |-> directory, file |-> filename]

thumb_name(file_prefix, ext) == file_prefix \o "-thumb." \o ext

artwork_name(file_prefix, ext) == file_prefix \o "." \o ext

\* ARTWORK_TYPES[artwork_type]['file_prefix']
file_prefix_of(artwork_type) == artwork_type

----------------------------------------------------------------------------
(* Directory -> artwork scanner                                            *)

\* a scan that finds no artwork file of the type in any directory
has_nothing(file_prefix, dir_files) == FALSE

has_type(file_prefix, dir_files) ==
    \E i \in 1..Len(EXTS) :
        \/ artwork_name(file_prefix, EXTS[i]) \in dir_files
        \/ thumb_name(file_prefix, EXTS[i]) \in dir_files

RECURSIVE find_artwork_in_detail(_, _, _, _, _, _)
\* the extension loop with the lightweight flag ignored: every thumbnail is
\* copied and every artwork file is opened and dated
find_artwork_in_detail(i, media_dir, file_prefix, dir_files, lightweight, acc) ==
    IF i > Len(EXTS) THEN acc
    ELSE LET thumb_filename == thumb_name(file_prefix, EXTS[i])
             artwork_filename == artwork_name(file_prefix, EXTS[i])
             a1 == IF thumb_filename \in dir_files
                   THEN [acc EXCEPT
                            !.artwork_thumb = get_cached_artwork_url(media_dir, thumb_filename),
                            !.copied = @ \cup {get_cache_path(media_dir, thumb_filename)}]
                   ELSE acc
         IN  IF artwork_filename \in dir_files
             THEN [a1 EXCEPT
                      !.artwork = artwork_url(media_dir, artwork_filename),
                      !.artwork_dimensions = [text |-> "WxH"],
                      !.artwork_last_modified = [text |-> "Y-m-d"]]
             ELSE find_artwork_in_detail(i + 1, media_dir, file_prefix, dir_files,
                                         lightweight, a1)

RECURSIVE find_artwork(_, _, _, _, _, _)
\* the extension loop of scan_single_directory; acc carries artwork,
\* artwork_thumb, the two metadata fields and the thumbnails copied to the cache
find_artwork(i, media_dir, file_prefix, dir_files, lightweight, acc) ==
    IF i > Len(EXTS) THEN acc
    ELSE LET thumb_filename == thumb_name(file_prefix, EXTS[i])
             artwork_filename == artwork_name(file_prefix, EXTS[i])
             a1 == IF thumb_filename \in dir_files
                   THEN IF lightweight
                        THEN [acc EXCEPT !.artwork_thumb =
                                 IF get_cache_path(media_dir, thumb_filename) \in thumbCache
                                 THEN get_cached_artwork_url(media_dir, thumb_filename)
                                 ELSE None]
                        ELSE [acc EXCEPT
                                 !.artwork_thumb = get_cached_artwork_url(media_dir, thumb_filename),
                                 !.copied = @ \cup {get_cache_path(media_dir, thumb_filename)}]
                   ELSE acc
         IN  IF artwork_filename \in dir_files
             THEN [a1 EXCEPT
                      !.artwork = artwork_url(media_dir, artwork_filename),
                      !.artwork_dimensions = IF lightweight THEN None ELSE [text |-> "WxH"],
                      !.artwork_last_modified = IF lightweight THEN None ELSE [text |-> "Y-m-d"]]
             ELSE find_artwork(i + 1, media_dir, file_prefix, dir_files, lightweight, a1)

\* scan_single_directory: the entry, and the thumbnails it copied to the local cache
scan_single_directory(media_dir, media_path, artwork_type, dir_files, lightweight) ==
    LET found == find_artwork(1, media_dir, file_prefix_of(artwork_type), dir_files, lightweight,
                              [artwork |-> None, artwork_thumb |-> None,
                               artwork_dimensions |-> None, artwork_last_modified |-> None,
                               copied |-> {}])
    IN  [entry |->
            [title |-> media_dir,
             path |-> media_path,
             artwork |-> found.artwork,
             artwork_thumb |-> found.artwork_thumb,
             artwork_dimensions |-> found.artwork_dimensions,
             artwork_last_modified |-> found.artwork_last_modified,
             clean_id |-> generate_clean_id(Chars(media_dir)),
             has_artwork |-> (found.artwork # None \/ found.artwork_thumb # None),
             has_poster |-> has_type("poster", dir_files),
             has_logo |-> has_type("logo", dir_files),
             has_backdrop |-> has_type("backdrop", dir_files),
             poster_unavailable |-> is_artwork_unavailable(media_dir, "poster"),
             logo_unavailable |-> is_artwork_unavailable(media_dir, "logo"),
             backdrop_unavailable |-> is_artwork_unavailable(media_dir, "backdrop"),
             tmdb_id |-> None],
         copied |-> found.copied]

has_key_of(artwork_type) == "has_" \o artwork_type

unavailable_key_of(artwork_type) == artwork_type \o "_unavailable"

----------------------------------------------------------------------------
(* Scan cache store                                                        *)

\* the entry fields that hold booleans, and those that always hold a string
BoolFields ==
    {"has_artwork", "has_poster", "has_logo", "has_backdrop",
     "poster_unavailable", "logo_unavailable", "backdrop_unavailable"}

StringFields == {"title", "path", "clean_id"}

\* json.dump of the value of an entry field: true / false, a string, or null for None
json_dump_value(field, v) ==
    IF field \in BoolFields THEN [json |-> IF v THEN "true" ELSE "false"]
    ELSE IF field \in StringFields THEN [json |-> "string", value |-> v]
    ELSE IF v = None THEN [json |-> "null"]
    ELSE [json |-> "string", value |-> v]

\* json.load of a value
json_load_value(j) ==
    CASE j.json = "null" -> None
      [] j.json = "true" -> TRUE
      [] j.json = "false" -> FALSE
      [] OTHER -> j.value

\* json.dump of a cache dictionary: the entry list, the number, the other strings
json_dump(data) ==
    [f \in DOMAIN data |->
        CASE f = "media_list" ->
                 [i \in 1..Len(data.media_list) |->
                     [g \in DOMAIN data.media_list[i] |->
                         json_dump_value(g, data.media_list[i][g])]]
          [] f = "total" -> [json |-> "number", value |-> data.total]
          [] OTHER -> [json |-> "string", value |-> data[f]]]

\* json.load of a cache file
json_load(text) ==
    [f \in DOMAIN text |->
        CASE f = "media_list" ->
                 [i \in 1..Len(text.media_list) |->
                     [g \in DOMAIN text.media_list[i] |->
                         json_load_value(text.media_list[i][g])]]
          [] OTHER -> text[f].value]

\* a cache file cut short by an interrupted write: not JSON
Truncated == [truncated |-> TRUE]

\* a variant that reads a cut file as a document with no entries
read_cut_as_document(store, k) ==
    IF store[k] = None THEN None
    ELSE IF store[k] = Truncated THEN [media_list |-> <<>>, total |-> 1, timestamp |-> "now"]
    ELSE json_load(store[k])

\* the cache file of a key read with json.load, None when there is no file or
\* when json.load raises, which every reader catches
read_cache(store, k) ==
    IF store[k] = None \/ store[k] = Truncated THEN None ELSE json_load(store[k])

\* a variant of the dictionary below without its timestamp
cache_without_timestamp(media_list, total) == [media_list |-> media_list, total |-> total]

\* the dictionary save_scan_cache writes; the clock is not modelled
cache_doc(media_list, total) ==
    [media_list |-> media_list, total |-> total, timestamp |-> "now"]

save_scan_cache(store, media_type, artwork_type, media_list, total) ==
    [store EXCEPT ![_get_scan_key(media_type, artwork_type)] =
        json_dump(cache_doc(media_list, total))]

\* a variant of load_scan_cache that reports every readable file as present
load_without_empty_policy(store, media_type, artwork_type) ==
    LET data == read_cache(store, _get_scan_key(media_type, artwork_type))
    IN  IF data = None THEN None
        ELSE [media_list |-> data.media_list, total |-> data.total]

\* load_scan_cache on a store: None, or the document's (media_list, total); a
\* missing key raises inside the try block and yields None
load_from(store, media_type, artwork_type) ==
    LET data == read_cache(store, _get_scan_key(media_type, artwork_type))
    IN  IF data = None THEN None
        ELSE IF "total" \notin DOMAIN data THEN None
        ELSE IF data.total = 0
                /\ (IF "media_list" \in DOMAIN data THEN Len(data.media_list) ELSE 0) = 0
        THEN None
        ELSE IF {"media_list", "timestamp"} \subseteq DOMAIN data
        THEN [media_list |-> data.media_list, total |-> data.total]
        ELSE None

load_scan_cache(media_type, artwork_type) == load_from(cacheFile, media_type, artwork_type)

\* a variant that persists an empty checkpoint
checkpoint_of_nothing(media_list, scanned_titles) ==
    [media_list |-> <<>>, scanned_titles |-> {}]

\* a variant that persists the entries without the visited names
checkpoint_of_entries(media_list, scanned_titles) ==
    [media_list |-> media_list, scanned_titles |-> {}]

\* _save_checkpoint's document
checkpoint_doc(media_list, scanned_titles) ==
    [media_list |-> media_list, scanned_titles |-> scanned_titles]

\* a variant that keeps the checkpoint's entries and forgets its visited names
load_checkpoint_without_titles(media_type, artwork_type) ==
    LET checkpoint == ckptFile[_get_scan_key(media_type, artwork_type)]
    IN  IF checkpoint = None THEN None ELSE [checkpoint EXCEPT !.scanned_titles = {}]

_load_checkpoint(media_type, artwork_type) == ckptFile[_get_scan_key(media_type, artwork_type)]

----------------------------------------------------------------------------
(* Derivation of one artwork type's cache from a sibling's                 *)

RECURSIVE derive_source(_, _, _)
\* the first other artwork type, in ARTWORK_TYPES order, whose cache loads with
\* total > 0; "" when there is none
derive_source(i, media_type, artwork_type) ==
    IF i > Len(ARTWORK_TYPES) THEN ""
    ELSE LET other_type == ARTWORK_TYPES[i]
             cached == load_scan_cache(media_type, other_type)
         IN  IF other_type # artwork_type /\ cached # None /\ cached.total > 0
             THEN other_type
             ELSE derive_source(i + 1, media_type, artwork_type)

\* the locally cached thumbnail of a title, first extension first
cached_thumb_url(title, file_prefix) ==
    LET hits == {i \in 1..Len(EXTS) :
                    get_cache_path(title, thumb_name(file_prefix, EXTS[i])) \in thumbCache}
    IN  IF hits = {} THEN None
        ELSE get_cached_artwork_url(title,
                 thumb_name(file_prefix, EXTS[CHOOSE i \in hits : \A j \in hits : i <= j]))

\* a variant that copies the sibling's entry as it is
copy_entry(item, artwork_type) == item

\* new_entry of _derive_cache_from_existing
derive_entry(item, artwork_type) ==
    LET has_artwork == item[has_key_of(artwork_type)]
        file_prefix == file_prefix_of(artwork_type)
    IN  [title |-> item.title,
         path |-> item.path,
         artwork |-> IF has_artwork
                     THEN artwork_url(item.title, artwork_name(file_prefix, EXTS[1]))
                     ELSE None,
         artwork_thumb |-> IF has_artwork THEN cached_thumb_url(item.title, file_prefix) ELSE None,
         artwork_dimensions |-> None,
         artwork_last_modified |-> None,
         clean_id |-> item.clean_id,
         has_artwork |-> has_artwork,
         has_poster |-> item.has_poster,
         has_logo |-> item.has_logo,
         has_backdrop |-> item.has_backdrop,
         poster_unavailable |-> item.poster_unavailable,
         logo_unavailable |-> item.logo_unavailable,
         backdrop_unavailable |-> item.backdrop_unavailable,
         tmdb_id |-> item.tmdb_id]

\* a variant that never derives
derive_nothing(media_type, artwork_type) == None

\* (new_list, total_count) of _derive_cache_from_existing, or None when no sibling
\* cache serves
_derive_cache_from_existing(media_type, artwork_type) ==
    LET other_type == derive_source(1, media_type, artwork_type)
    IN  IF other_type = "" THEN None
        ELSE LET cached_list == load_scan_cache(media_type, other_type).media_list
                 new_list == [i \in 1..Len(cached_list) |->
                                 derive_entry(cached_list[i], artwork_type)]
             IN  [media_list |-> new_list, total |-> Len(new_list)]

----------------------------------------------------------------------------
(* Single-entry update after a download                                    *)

\* index of the first item matching the directory by title or by path, 0 if none
match_index(media_list, directory_name, directory_path) ==
    LET hits == {i \in 1..Len(media_list) :
                    \/ media_list[i].title = directory_name
                    \/ media_list[i].path = directory_path}
    IN  IF hits = {} THEN 0 ELSE CHOOSE i \in hits : \A j \in hits : i <= j

\* the first extension whose artwork file safe_exists reports, 0 if none
first_existing_ext(fs, directory_path, file_prefix, okArtwork) ==
    LET hits == {i \in 1..Len(EXTS) :
                    safe_exists_in(fs, directory_path, artwork_name(file_prefix, EXTS[i]), okArtwork)}
    IN  IF hits = {} THEN 0 ELSE CHOOSE i \in hits : \A j \in hits : i <= j

\* the item of the target cache after lines 324-341
update_target_item(fs, item, artwork_type, directory_path, okArtwork, okThumb) ==
    LET file_prefix == file_prefix_of(artwork_type)
        directory_name == basename(directory_path)
        e == first_existing_ext(fs, directory_path, file_prefix, okArtwork)
    IN  IF e = 0 THEN item
        ELSE LET flagged == [item EXCEPT !.has_artwork = TRUE,
                                         ![has_key_of(artwork_type)] = TRUE]
             IN  IF safe_exists_in(fs, directory_path, thumb_name(file_prefix, EXTS[e]), okThumb)
                 THEN [flagged EXCEPT !.artwork_thumb =
                          get_cached_artwork_url(directory_name, thumb_name(file_prefix, EXTS[e]))]
                 ELSE flagged

\* the thumbnails update_single_cache_entry copies into the local cache
update_copied(fs, store, media_type, artwork_type, directory_path, okArtwork, okThumb) ==
    LET data == read_cache(store, _get_scan_key(media_type, artwork_type))
        file_prefix == file_prefix_of(artwork_type)
        e == first_existing_ext(fs, directory_path, file_prefix, okArtwork)
    IN  IF data = None THEN {}
        ELSE IF match_index(data.media_list, basename(directory_path), directory_path) = 0 THEN {}
        ELSE IF e = 0 THEN {}
        ELSE IF safe_exists_in(fs, directory_path, thumb_name(file_prefix, EXTS[e]), okThumb)
             THEN {get_cache_path(basename(directory_path), thumb_name(file_prefix, EXTS[e]))}
             ELSE {}

\* the sibling cache document after lines 355-363
update_sibling_doc(other_data, artwork_type, directory_path) ==
    LET i == match_index(other_data.media_list, basename(directory_path), directory_path)
    IN  IF i = 0 THEN other_data
        ELSE [other_data EXCEPT !.media_list[i][has_key_of(artwork_type)] = TRUE]

\* the cache files after update_single_cache_entry
update_single_cache_entry(fs, store, media_type, artwork_type, directory_path, okArtwork, okThumb) ==
    LET target == _get_scan_key(media_type, artwork_type)
        data == read_cache(store, target)
    IN  IF data = None THEN store
        ELSE [k \in DOMAIN store |->
                IF k = target
                THEN LET i == match_index(data.media_list, basename(directory_path), directory_path)
                     IN  IF i = 0 THEN store[k]
                         ELSE json_dump([data EXCEPT !.media_list[i] =
                                  update_target_item(fs, @, artwork_type, directory_path,
                                                     okArtwork, okThumb)])
                ELSE IF k[1] = media_type /\ store[k] # None
                THEN json_dump(update_sibling_doc(read_cache(store, k), artwork_type,
                                                  directory_path))
                ELSE store[k]]

----------------------------------------------------------------------------
(* Propagation of the unavailability store into the caches                 *)

_update_caches_unavailable(store, directory, artwork_type, unavailable) ==
    [k \in DOMAIN store |->
        IF store[k] = None THEN None
        ELSE json_dump([read_cache(store, k) EXCEPT !.media_list =
                 [i \in 1..Len(@) |->
                     IF @[i].title = directory
                     THEN [@[i] EXCEPT ![unavailable_key_of(artwork_type)] = unavailable]
                     ELSE @[i]]])]

----------------------------------------------------------------------------
(* Threads                                                                 *)

\* the (None, None) that get_artwork_data returns for "in progress"
InProgress == [media_list |-> None, total |-> None]

IdleRequest ==
    [pc |-> "idle", media_type |-> "", artwork_type |-> "",
     ret |-> None, via |-> "", started |-> FALSE, post_refresh |-> FALSE]

IdleScan ==
    [pc |-> "idle", key |-> <<"", "">>, media_list |-> <<>>, scanned_titles |-> {},
     scan_count |-> 0, total_dirs |-> 0, folder |-> 0, todo |-> <<>>, resumed |-> {}]

IdleThumb == [pc |-> "idle", key |-> <<"", "">>, items |-> <<>>, idx |-> 0, loaded |-> None]

FreeRequests == {r \in ReqIds : rq[r].pc \in {"idle", "done"}}

FreeScans == {s \in ScanIds : sc[s].pc = "idle"}

FreeThumbs == {t \in ThumbIds : th[t].pc = "idle"}

Least(S) == CHOOSE x \in S : \A y \in S : x <= y

\* dict item assignment _scan_progress[key][field] = value
SetItem(record, field, value) ==
    [f \in DOMAIN record \cup {field} |-> IF f = field THEN value ELSE record[f]]

----------------------------------------------------------------------------
(* Thumbnail backfill start guard                                          *)

items_needing_thumbs(media_list) ==
    SelectSeq(media_list, LAMBDA item : item.has_artwork /\ item.artwork_thumb = None)

thumb_thread_due(key, media_list) ==
    key \notin thumbStarted /\ items_needing_thumbs(media_list) # <<>>

_maybe_start_thumb_caching(key, media_list) ==
    IF thumb_thread_due(key, media_list)
    THEN /\ FreeThumbs # {}
         /\ thumbStarted' = thumbStarted \cup {key}
         /\ th' = [th EXCEPT ![Least(FreeThumbs)] =
                      [pc |-> "items", key |-> key, items |-> items_needing_thumbs(media_list),
                       idx |-> 1, loaded |-> None]]
    ELSE UNCHANGED <<thumbStarted, th>>

----------------------------------------------------------------------------
(* get_artwork_data                                                        *)

\* lines 640-659: the cache, then derivation
Call(r, media_type, artwork_type) ==
    LET key == _get_scan_key(media_type, artwork_type)
        cached == load_scan_cache(media_type, artwork_type)
        derived == _derive_cache_from_existing(media_type, artwork_type)
        begun == [IdleRequest EXCEPT !.media_type = media_type, !.artwork_type = artwork_type,
                                     !.post_refresh = fresh[key]]
    IN  /\ env.ops > 0
        /\ FreeRequests # {}
        /\ r = Least(FreeRequests)
        /\ env' = Spend("ops", 1)
        /\ fresh' = [fresh EXCEPT ![key] = FALSE]
        /\ IF cached # None
           THEN /\ _maybe_start_thumb_caching(key, cached.media_list)
                /\ rq' = [rq EXCEPT ![r] = [begun EXCEPT !.pc = "done", !.ret = cached,
                                                         !.via = "cache"]]
                /\ UNCHANGED cacheFile
           ELSE IF derived # None
           THEN /\ cacheFile' = save_scan_cache(cacheFile, media_type, artwork_type,
                                                derived.media_list, derived.total)
                /\ _maybe_start_thumb_caching(key, derived.media_list)
                /\ rq' = [rq EXCEPT ![r] = [begun EXCEPT !.pc = "done", !.ret = derived,
                                                         !.via = "derived"]]
           ELSE /\ rq' = [rq EXCEPT ![r] = [begun EXCEPT !.pc = "progress"]]
                /\ UNCHANGED <<cacheFile, thumbStarted, th>>
        /\ UNCHANGED <<_smb_health, now, ac, mapFile, call, dirs, files, ckptFile, unavail, thumbCache, scanLock, scanProgress,
                       sc, seen>>

\* lines 661-666: is a scan of this key already running?
CheckProgress(r) ==
    LET key == _get_scan_key(rq[r].media_type, rq[r].artwork_type)
        progress == scanProgress[key]
    IN  /\ rq[r].pc = "progress"
        /\ rq' = [rq EXCEPT ![r] =
                     IF progress # None /\ progress.status = "scanning"
                     THEN [@ EXCEPT !.pc = "done", !.ret = InProgress, !.via = "scanning"]
                     ELSE [@ EXCEPT !.pc = "acquire"]]
        /\ UNCHANGED <<_smb_health, now, ac, mapFile, call, dirs, files, cacheFile, ckptFile, unavail, thumbCache, scanLock,
                       scanProgress, thumbStarted, sc, th, env, seen, fresh>>

\* lines 668-670: _scan_lock.acquire(blocking=False)
Acquire(r) ==
    /\ rq[r].pc = "acquire"
    /\ IF scanLock # 0
       THEN /\ rq' = [rq EXCEPT ![r] = [@ EXCEPT !.pc = "done", !.ret = InProgress,
                                                 !.via = "locked"]]
            /\ UNCHANGED scanLock
       ELSE /\ scanLock' = r
            /\ rq' = [rq EXCEPT ![r] = [@ EXCEPT !.pc = "locked"]]
    /\ UNCHANGED <<_smb_health, now, ac, mapFile, call, dirs, files, cacheFile, ckptFile, unavail, thumbCache,
                   scanProgress, thumbStarted, sc, th, env, seen, fresh>>

\* lines 672-692: double-check the cache, else start the background scan
StartScan(r) ==
    LET key == _get_scan_key(rq[r].media_type, rq[r].artwork_type)
        cached == load_scan_cache(rq[r].media_type, rq[r].artwork_type)
    IN  /\ rq[r].pc = "locked"
        /\ IF cached # None
           THEN /\ rq' = [rq EXCEPT ![r] = [@ EXCEPT !.pc = "release", !.ret = cached,
                                                     !.via = "recheck"]]
                /\ UNCHANGED <<scanProgress, sc>>
           ELSE /\ FreeScans # {}
                /\ scanProgress' = [scanProgress EXCEPT ![key] =
                                       [status |-> "scanning", scanned |-> 0, total |-> 0]]
                /\ sc' = [sc EXCEPT ![Least(FreeScans)] =
                             [IdleScan EXCEPT !.pc = "load", !.key = key]]
                /\ rq' = [rq EXCEPT ![r] = [@ EXCEPT !.pc = "release", !.ret = InProgress,
                                                     !.via = "started", !.started = TRUE]]
        /\ UNCHANGED <<_smb_health, now, ac, mapFile, call, dirs, files, cacheFile, ckptFile, unavail, thumbCache, scanLock,
                       thumbStarted, th, env, seen, fresh>>

\* a variant that returns without releasing
return_without_release(r) ==
    /\ rq[r].pc = "release"
    /\ rq' = [rq EXCEPT ![r] = [@ EXCEPT !.pc = "done"]]
    /\ UNCHANGED <<_smb_health, now, ac, mapFile, call, dirs, files, cacheFile, ckptFile, unavail, thumbCache, scanLock,
                   scanProgress, thumbStarted, sc, th, env, seen, fresh>>

\* lines 693-694: finally: _scan_lock.release()
Release(r) ==
    /\ rq[r].pc = "release"
    /\ scanLock' = 0
    /\ rq' = [rq EXCEPT ![r] = [@ EXCEPT !.pc = "done"]]
    /\ UNCHANGED <<_smb_health, now, ac, mapFile, call, dirs, files, cacheFile, ckptFile, unavail, thumbCache,
                   scanProgress, thumbStarted, sc, th, env, seen, fresh>>

----------------------------------------------------------------------------
(* _background_scan                                                        *)

\* lines 748-754: resume from a checkpoint, or start empty
ScanLoad(s) ==
    LET checkpoint == _load_checkpoint(sc[s].key[1], sc[s].key[2])
    IN  /\ sc[s].pc = "load"
        /\ sc' = [sc EXCEPT ![s] =
                     IF checkpoint = None
                     THEN [@ EXCEPT !.pc = "root", !.folder = 1]
                     ELSE [@ EXCEPT !.pc = "root", !.folder = 1,
                                    !.media_list = checkpoint.media_list,
                                    !.scanned_titles = checkpoint.scanned_titles,
                                    !.scan_count = Cardinality(checkpoint.scanned_titles),
                                    !.resumed = checkpoint.scanned_titles]]
        /\ UNCHANGED <<_smb_health, now, ac, mapFile, call, dirs, files, cacheFile, ckptFile, unavail, thumbCache, scanLock,
                       scanProgress, thumbStarted, rq, th, env, seen, fresh>>

\* line 764: hidden and system directories are filtered out
\* (a leading ".", or "@eadir" / "#recycle" in any case)
is_hidden(d) ==
    \/ Chars(d)[1] = 46
    \/ lower(Chars(d)) \in {<<64, 101, 97, 100, 105, 114>>,
                            <<35, 114, 101, 99, 121, 99, 108, 101>>}

\* lines 757-767: the next root folder is checked, listed and counted
ScanRoot(s) ==
    LET t == sc[s]
        base_folders == base_folders_of(t.key[1])
    IN  /\ t.pc = "root"
        /\ t.folder <= Len(base_folders)
        /\ \E okExists \in Outcomes, okList \in Outcomes :
              LET base_folder == base_folders[t.folder]
                  directories == {d \in safe_listdir_root(base_folder, okList) : ~is_hidden(d)}
                  total_dirs == t.total_dirs + Cardinality(directories)
                  failed == (IF okExists THEN 0 ELSE 1) + (IF okExists /\ ~okList THEN 1 ELSE 0)
              IN  /\ failed <= env.faults
                  /\ okExists \/ okList
                  /\ env' = Spend("faults", failed)
                  /\ IF ~safe_exists_root(base_folder, okExists)
                     THEN /\ sc' = [sc EXCEPT ![s] = [@ EXCEPT !.folder = @ + 1]]
                          /\ UNCHANGED scanProgress
                     ELSE /\ scanProgress' = [scanProgress EXCEPT ![t.key] =
                                                 SetItem(@, "total", total_dirs)]
                          /\ sc' = [sc EXCEPT ![s] =
                                       IF directories = {}
                                       THEN [@ EXCEPT !.total_dirs = total_dirs, !.folder = @ + 1]
                                       ELSE [@ EXCEPT !.total_dirs = total_dirs, !.pc = "dir",
                                                      !.todo = SortNames(directories)]]
        /\ UNCHANGED <<_smb_health, now, ac, mapFile, call, dirs, files, cacheFile, ckptFile, unavail, thumbCache, scanLock,
                       thumbStarted, rq, th, seen, fresh>>

\* the loop variable moves on: the next directory, or the next root folder
Advance(t) ==
    IF Tail(t.todo) = <<>>
    THEN [t EXCEPT !.pc = "root", !.folder = @ + 1, !.todo = <<>>]
    ELSE [t EXCEPT !.todo = Tail(@)]

\* lines 769-786: one directory of the root folder
ScanDir(s) ==
    LET t == sc[s]
        media_dir == Head(t.todo)
        media_path == path_join(base_folders_of(t.key[1])[t.folder], media_dir)
    IN  /\ t.pc = "dir"
        /\ IF media_dir \in t.scanned_titles
           THEN /\ sc' = [sc EXCEPT ![s] = Advance(t)]
                /\ UNCHANGED <<scanProgress, ckptFile, env, seen>>
           ELSE \E ok \in Outcomes :
                  LET entry == scan_single_directory(media_dir, media_path, t.key[2],
                                   safe_listdir_dir(media_path, ok), TRUE).entry
                      media_list == Append(t.media_list, entry)
                      scanned_titles == t.scanned_titles \cup {media_dir}
                      scan_count == t.scan_count + 1
                  IN  /\ env' = IF ok THEN env ELSE Spend("faults", 1)
                      /\ seen' = [seen EXCEPT ![t.key] = @ \cup {media_dir}]
                      /\ scanProgress' = [scanProgress EXCEPT ![t.key] =
                                             SetItem(@, "scanned", scan_count)]
                      /\ ckptFile' = IF scan_count % BATCH_SIZE = 0
                                     THEN [ckptFile EXCEPT ![t.key] =
                                              checkpoint_doc(media_list, scanned_titles)]
                                     ELSE ckptFile
                      /\ sc' = [sc EXCEPT ![s] =
                                   Advance([t EXCEPT !.media_list = media_list,
                                                     !.scanned_titles = scanned_titles,
                                                     !.scan_count = scan_count])]
        /\ UNCHANGED <<_smb_health, now, ac, mapFile, call, dirs, files, cacheFile, unavail, thumbCache, scanLock,
                       thumbStarted, rq, th, fresh>>

\* lines 801-806: an exception raised while a directory is being scanned
ScanError(s) ==
    LET t == sc[s]
    IN  /\ t.pc = "dir"
        /\ Head(t.todo) \notin t.scanned_titles
        /\ env.errors > 0
        /\ \E okWrite \in Outcomes :
              /\ env' = [env EXCEPT !.errors = @ - 1,
                                    !.faults = IF okWrite THEN @ ELSE @ - 1]
              \* _save_checkpoint swallows a failed write, lines 705-713
              /\ ckptFile' = IF okWrite
                             THEN [ckptFile EXCEPT ![t.key] =
                                      checkpoint_doc(t.media_list, t.scanned_titles)]
                             ELSE ckptFile
        /\ scanProgress' = [scanProgress EXCEPT ![t.key] =
                               [status |-> "error", error |-> "e"]]
        /\ sc' = [sc EXCEPT ![s] = IdleScan]
        /\ UNCHANGED <<_smb_health, now, ac, mapFile, call, dirs, files, cacheFile, unavail, thumbCache, scanLock,
                       thumbStarted, rq, th, seen, fresh>>

\* lines 788-795: sort, save the cache, delete the checkpoint
ScanSave(s) ==
    LET t == sc[s]
        media_list == SortEntries(t.media_list)
    IN  /\ t.pc = "root"
        /\ t.folder > Len(base_folders_of(t.key[1]))
        /\ \E okWrite \in Outcomes :
              /\ env' = IF okWrite THEN env ELSE Spend("faults", 1)
              \* save_scan_cache swallows a failed write, lines 275-284
              /\ cacheFile' = IF okWrite
                              THEN save_scan_cache(cacheFile, t.key[1], t.key[2],
                                                   media_list, Len(media_list))
                              ELSE cacheFile
        /\ ckptFile' = [ckptFile EXCEPT ![t.key] = None]
        /\ sc' = [sc EXCEPT ![s] = [@ EXCEPT !.pc = "complete", !.media_list = media_list]]
        /\ UNCHANGED <<_smb_health, now, ac, mapFile, call, dirs, files, unavail, thumbCache, scanLock, scanProgress,
                       thumbStarted, rq, th, seen, fresh>>

\* a variant in which the thread ends without writing the progress record
end_without_record(s) ==
    /\ sc[s].pc = "complete"
    /\ sc' = [sc EXCEPT ![s] = IdleScan]
    /\ UNCHANGED <<_smb_health, now, ac, mapFile, call, dirs, files, cacheFile, ckptFile, unavail, thumbCache, scanLock,
                   scanProgress, thumbStarted, th, rq, env, seen, fresh>>

\* lines 797-800: start the thumbnail backfill, mark the progress complete
ScanComplete(s) ==
    LET t == sc[s]
        total_count == Len(t.media_list)
    IN  /\ t.pc = "complete"
        /\ _maybe_start_thumb_caching(t.key, t.media_list)
        /\ scanProgress' = [scanProgress EXCEPT ![t.key] =
                               [status |-> "complete", scanned |-> total_count,
                                total |-> total_count]]
        /\ sc' = [sc EXCEPT ![s] = IdleScan]
        /\ UNCHANGED <<_smb_health, now, ac, mapFile, call, dirs, files, cacheFile, ckptFile, unavail, thumbCache, scanLock,
                       rq, env, seen, fresh>>

----------------------------------------------------------------------------
(* _background_cache_thumbnails                                            *)

\* lines 815-835: one item; its remote thumbnail is copied to the local cache
ThumbItem(t) ==
    LET w == th[t]
        item == w.items[w.idx]
        file_prefix == file_prefix_of(w.key[2])
    IN  /\ w.pc = "items"
        /\ \E ok \in Outcomes :
              LET hits == {i \in 1..Len(EXTS) :
                              safe_exists_file(item.path, thumb_name(file_prefix, EXTS[i]), ok)}
                  e == IF hits = {} THEN 0 ELSE Least(hits)
                  moved == [w EXCEPT !.idx = @ + 1,
                                     !.pc = IF w.idx = Len(w.items) THEN "reload" ELSE "items"]
              IN  /\ env' = IF ok THEN env ELSE Spend("faults", 1)
                  /\ IF e = 0
                     THEN /\ th' = [th EXCEPT ![t] = moved]
                          /\ UNCHANGED thumbCache
                     ELSE /\ thumbCache' = thumbCache \cup
                                 {get_cache_path(item.title, thumb_name(file_prefix, EXTS[e]))}
                          /\ th' = [th EXCEPT ![t] =
                                       [moved EXCEPT !.items[w.idx].artwork_thumb =
                                           get_cached_artwork_url(item.title,
                                               thumb_name(file_prefix, EXTS[e]))]]
        /\ UNCHANGED <<_smb_health, now, ac, mapFile, call, dirs, files, cacheFile, ckptFile, unavail, scanLock, scanProgress,
                       thumbStarted, rq, sc, seen, fresh>>

\* line 841: reload the full cache
ThumbReload(t) ==
    LET w == th[t]
        cached == load_scan_cache(w.key[1], w.key[2])
    IN  /\ w.pc = "reload"
        /\ th' = [th EXCEPT ![t] = IF cached = None THEN IdleThumb
                                   ELSE [w EXCEPT !.pc = "save", !.loaded = cached]]
        /\ UNCHANGED <<_smb_health, now, ac, mapFile, call, dirs, files, cacheFile, ckptFile, unavail, thumbCache, scanLock,
                       scanProgress, thumbStarted, rq, sc, env, seen, fresh>>

\* lines 843-847: the reloaded list with the new thumbnail URLs patched in by title
patch_thumbs(cached_list, items) ==
    [i \in 1..Len(cached_list) |->
        LET hits == {j \in 1..Len(items) :
                        items[j].title = cached_list[i].title /\ items[j].artwork_thumb # None}
        IN  IF hits = {} THEN cached_list[i]
            ELSE [cached_list[i] EXCEPT !.artwork_thumb =
                     items[CHOOSE j \in hits : \A k \in hits : k <= j].artwork_thumb]]

\* a final save that reads the cache file again at the moment it writes
save_current(t) ==
    LET w == th[t]
        current == load_scan_cache(w.key[1], w.key[2])
    IN  /\ w.pc = "save"
        /\ cacheFile' = IF current = None THEN cacheFile
                        ELSE save_scan_cache(cacheFile, w.key[1], w.key[2],
                                             patch_thumbs(current.media_list, w.items),
                                             current.total)
        /\ th' = [th EXCEPT ![t] = IdleThumb]
        /\ UNCHANGED <<_smb_health, now, ac, mapFile, call, dirs, files, ckptFile, unavail, thumbCache, scanLock, scanProgress,
                       thumbStarted, rq, sc, env, seen, fresh>>

\* line 848: save what was reloaded and patched
ThumbSave(t) ==
    LET w == th[t]
    IN  /\ w.pc = "save"
        /\ cacheFile' = save_scan_cache(cacheFile, w.key[1], w.key[2],
                                        patch_thumbs(w.loaded.media_list, w.items),
                                        w.loaded.total)
        /\ th' = [th EXCEPT ![t] = IdleThumb]
        /\ UNCHANGED <<_smb_health, now, ac, mapFile, call, dirs, files, ckptFile, unavail, thumbCache, scanLock, scanProgress,
                       thumbStarted, rq, sc, env, seen, fresh>>

----------------------------------------------------------------------------
(* Handlers that run to completion                                         *)

\* refresh, lines 989-1016: caches, checkpoints and thumbnail guards of the media type
Refresh(media_type, artwork_type) ==
    /\ env.ops > 0
    /\ env' = Spend("ops", 1)
    /\ cacheFile' = [k \in DOMAIN cacheFile |-> IF k[1] = media_type THEN None ELSE cacheFile[k]]
    /\ ckptFile' = [k \in DOMAIN ckptFile |-> IF k[1] = media_type THEN None ELSE ckptFile[k]]
    /\ thumbStarted' = {k \in thumbStarted : k[1] # media_type}
    /\ fresh' = [fresh EXCEPT ![_get_scan_key(media_type, artwork_type)] = TRUE]
    /\ seen' = [k \in DOMAIN seen |-> IF k[1] = media_type THEN {} ELSE seen[k]]
    /\ UNCHANGED <<_smb_health, now, ac, mapFile, call, dirs, files, unavail, thumbCache, scanLock, scanProgress, rq, sc, th>>

\* mark_artwork_unavailable, lines 167-176
mark_artwork_unavailable(directory, artwork_type, unavailable) ==
    /\ env.ops > 0
    /\ env' = Spend("ops", 1)
    /\ unavail' = IF unavailable THEN unavail \cup {<<directory, artwork_type>>}
                  ELSE unavail \ {<<directory, artwork_type>>}
    /\ cacheFile' = _update_caches_unavailable(cacheFile, directory, artwork_type, unavailable)
    /\ UNCHANGED <<_smb_health, now, ac, mapFile, call, dirs, files, ckptFile, thumbCache, scanLock, scanProgress, thumbStarted,
                   rq, sc, th, seen, fresh>>

\* save_artwork_and_thumbnail, lines 1248-1285: the artwork and thumbnail files of
\* the type are removed, in every extension, before the download is tried
removed(dir_files, artwork_type) ==
    LET file_prefix == file_prefix_of(artwork_type)
    IN  dir_files \ ({artwork_name(file_prefix, EXTS[i]) : i \in 1..Len(EXTS)}
                     \cup {thumb_name(file_prefix, EXTS[i]) : i \in 1..Len(EXTS)})

\* save_artwork_and_thumbnail on success, lines 1241-1357: the old files of the
\* type are removed, the artwork and its thumbnail are written
downloaded(dir_files, artwork_type) ==
    LET file_prefix == file_prefix_of(artwork_type)
        file_ext == IF artwork_type = "logo" THEN "png" ELSE "jpg"
        old == {artwork_name(file_prefix, EXTS[i]) : i \in 1..Len(EXTS)}
               \cup {thumb_name(file_prefix, EXTS[i]) : i \in 1..Len(EXTS)}
    IN  (dir_files \ old) \cup {artwork_name(file_prefix, file_ext),
                                thumb_name(file_prefix, file_ext)}

\* select_artwork with a directory given, lines 1393-1411: a successful download,
\* then update_single_cache_entry
select_artwork(media_type, artwork_type, directory) ==
    /\ env.ops > 0
    /\ directory \in DOMAIN files
    /\ \E okArtwork \in Outcomes, okThumb \in Outcomes :
          LET failed == (IF okArtwork THEN 0 ELSE 1) + (IF okThumb THEN 0 ELSE 1)
              saved == [files EXCEPT ![directory] = downloaded(@, artwork_type)]
          IN  /\ failed <= env.faults
              /\ env' = [env EXCEPT !.ops = @ - 1, !.faults = @ - failed]
              /\ files' = saved
              /\ cacheFile' = update_single_cache_entry(saved, cacheFile, media_type,
                                   artwork_type, directory, okArtwork, okThumb)
              /\ thumbCache' = thumbCache \cup
                                 update_copied(saved, cacheFile, media_type, artwork_type,
                                               directory, okArtwork, okThumb)
    /\ UNCHANGED <<_smb_health, now, ac, mapFile, call, dirs, ckptFile, unavail, scanLock, scanProgress, thumbStarted,
                   rq, sc, th, seen, fresh>>

\* the process is killed and started again: memory is lost, files stay
Restart ==
    /\ env.crashes > 0
    /\ env' = Spend("crashes", 1)
    /\ scanLock' = 0
    /\ scanProgress' = [k \in Keys |-> None]
    /\ thumbStarted' = {}
    /\ rq' = [r \in ReqIds |-> IdleRequest]
    /\ sc' = [s \in ScanIds |-> IdleScan]
    /\ th' = [t \in ThumbIds |-> IdleThumb]
    /\ UNCHANGED <<_smb_health, now, ac, mapFile, call, dirs, files, cacheFile, ckptFile, unavail, thumbCache, seen, fresh>>

----------------------------------------------------------------------------
(* Specification                                                           *)

MediaPaths(d) == {path_join(r, n) : r \in Roots, n \in Names} \cap
                 {p \in Roots \X Names : p[2] \in d[p[1]]}

\* lines 15-19 of app.py: the health record at import, without last_error_time,
\* which is written and never read; no thread is inside an accessor
InitHealth ==
    /\ _smb_health = [consecutive_errors |-> 0, backoff_until |-> 0]
    /\ now = 0
    /\ ac = [a \in AccIds |-> IdleAccessor]

InitMemory ==
    /\ cacheFile = [k \in Keys |-> None]
    /\ ckptFile = [k \in Keys |-> None]
    /\ unavail = {}
    /\ thumbCache = {}
    /\ scanLock = 0
    /\ scanProgress = [k \in Keys |-> None]
    /\ thumbStarted = {}
    /\ rq = [r \in ReqIds |-> IdleRequest]
    /\ sc = [s \in ScanIds |-> IdleScan]
    /\ th = [t \in ThumbIds |-> IdleThumb]
    /\ seen = [k \in Keys |-> {}]
    /\ fresh = [k \in Keys |-> FALSE]
    /\ mapFile = <<>>
    /\ call = None
    /\ InitHealth

\* a small library: two movie roots, one TV root
SmallDirs ==
    [r \in Roots |-> CASE r = "/m1" -> {"The Wire", "Breaking Bad"}
                       [] r = "/m2" -> {"alien", "@eaDir"}
                       [] r = "/t1" -> {"Fargo", ".hidden"}]

SmallFiles ==
    [p \in MediaPaths(SmallDirs) |->
        CASE p[2] = "Breaking Bad" -> {"poster.jpg", "poster-thumb.jpg"}
          [] p[2] = "alien" -> {"backdrop.jpg"}
          [] p[2] = "Fargo" -> {"poster.png"}
          [] OTHER -> {}]

Init ==
    /\ dirs = SmallDirs
    /\ files = SmallFiles
    /\ env = [ops |-> MaxOps, faults |-> 0, errors |-> MaxErrors, crashes |-> 0]
    /\ InitMemory

CallKeys == {<<"movie", "poster">>, <<"movie", "backdrop">>}

Request == \E r \in ReqIds, k \in CallKeys : Call(r, k[1], k[2])

RequestStep == \E r \in ReqIds : CheckProgress(r) \/ Acquire(r) \/ StartScan(r) \/ Release(r)

ScanStep ==
    \E s \in ScanIds :
        ScanLoad(s) \/ ScanRoot(s) \/ ScanDir(s) \/ ScanError(s) \/ ScanSave(s) \/ ScanComplete(s)

ThumbStep == \E t \in ThumbIds : ThumbItem(t) \/ ThumbReload(t) \/ ThumbSave(t)

RefreshRequest == \E a \in {"poster", "backdrop"} : Refresh("movie", a)

\* toggle_unavailable (lines 1670-1675) stores the negation of the current flag;
\* select_movie and select_tv (lines 1150, 1210) store true
ToggleUnavailable ==
    \E v \in {TRUE, ~is_artwork_unavailable("Breaking Bad", "poster")} :
        mark_artwork_unavailable("Breaking Bad", "poster", v)

Download == \E a \in {"poster", "logo"} : select_artwork("movie", a, <<"/m1", "The Wire">>)

Next ==
    \/ Request
    \/ RequestStep
    \/ ScanStep
    \/ ThumbStep
    \/ RefreshRequest
    \/ ToggleUnavailable
    \/ Download

Spec == Init /\ [][Next]_vars

----------------------------------------------------------------------------
(* Claims                                                                  *)

\* the _background_scan threads of a key that have been started and have not ended
RunningScans(k) == {s \in ScanIds : sc[s].pc # "idle" /\ sc[s].key = k}

\* C1: concurrent get_artwork_data calls for one key start one _background_scan
\* thread for it; no second scan thread of the key is started while the first runs.
C1_OneScanPerKey == \A k \in Keys : Cardinality(RunningScans(k)) <= 1

----------------------------------------------------------------------------
(* Checkpointed resumption: a library larger than one checkpoint batch,    *)
(* one key, requests one after the other, scan errors and restarts         *)

\* eleven movie directories in two roots, none with artwork
BigDirs ==
    [r \in Roots |-> CASE r = "/m1" -> {"The Wire", "Breaking Bad", "Casino", "Dune", "Heat",
                                        "Jaws", "The Omen", "Rocky"}
                       [] r = "/m2" -> {"alien", "up", "Zodiac", "@eaDir"}
                       [] r = "/t1" -> {"Fargo"}]

BigFiles == [p \in MediaPaths(BigDirs) |-> {}]

InitResume ==
    /\ dirs = BigDirs
    /\ files = BigFiles
    /\ env = [ops |-> MaxOps, faults |-> 0, errors |-> MaxErrors, crashes |-> MaxCrashes]
    /\ InitMemory

\* the page is requested again only after the previous request has returned
RequestAgain ==
    /\ \A r \in ReqIds : rq[r].pc \in {"idle", "done"}
    /\ \E r \in ReqIds : Call(r, "movie", "poster")

NextResume ==
    \/ RequestAgain
    \/ RequestStep
    \/ ScanStep
    \/ Restart

SpecResume == InitResume /\ [][NextResume]_vars

\* the scan thread s scans (visits) the directory at the head of its list in this step
Visits(s) == sc[s].pc = "dir" /\ sc'[s].scan_count = sc[s].scan_count + 1

\* the names every root folder of the media type lists, hidden and system names left out
AllDirs(media_type) ==
    UNION {{d \in dirs[base_folders_of(media_type)[i]] : ~is_hidden(d)} :
              i \in 1..Len(base_folders_of(media_type))}

Titles(media_list) == {media_list[i].title : i \in 1..Len(media_list)}

Sorted(media_list) ==
    \A i, j \in 1..Len(media_list) :
        i < j => StrLeq(SortKey(media_list[i]), SortKey(media_list[j]))

\* a saved cache of the key is sorted, has no duplicate title and holds exactly
\* the M directories of the media type
FinalCacheComplete(k) ==
    cacheFile[k] # None =>
        LET data == read_cache(cacheFile, k)
        IN  /\ Sorted(data.media_list)
            /\ Cardinality(Titles(data.media_list)) = Len(data.media_list)
            /\ Titles(data.media_list) = AllDirs(k[1])
            /\ data.total = Cardinality(AllDirs(k[1]))

\* C2 as stated: an interrupted and restarted scan visits no directory that a scan of
\* the key visited before, and the saved cache is sorted with exactly M entries and
\* no duplicate titles.
C2_NoRevisit ==
    /\ [](\A k \in Keys : FinalCacheComplete(k))
    /\ [][\A s \in ScanIds : Visits(s) => Head(sc[s].todo) \notin seen[sc[s].key]]_vars

\* C2 amended: a restarted scan visits no directory of the checkpoint it resumed from;
\* a scan interrupted by an error alone visits none of its N directories again; after
\* a process restart fewer than BATCH_SIZE directories (those scanned after the last
\* batch checkpoint) are visited again; the saved cache is sorted with exactly M
\* entries and no duplicate titles.
C2_ResumeFromCheckpoint ==
    /\ [](\A k \in Keys : FinalCacheComplete(k))
    /\ [](\A s \in ScanIds :
             sc[s].pc \notin {"idle", "load"} =>
                 Cardinality(seen[sc[s].key] \ sc[s].scanned_titles) < BATCH_SIZE)
    /\ [][\A s \in ScanIds :
             Visits(s) => /\ Head(sc[s].todo) \notin sc[s].resumed
                          /\ Head(sc[s].todo) \in seen[sc[s].key] => env.crashes < MaxCrashes]_vars

\* a scan that resumed from a batch checkpoint after a restart has saved its cache
C2_Witness ==
    \E s \in ScanIds :
        /\ sc[s].pc = "complete"
        /\ Cardinality(sc[s].resumed) = BATCH_SIZE
        /\ env.crashes < MaxCrashes
        /\ cacheFile[sc[s].key] # None

\* the request handler r decides in this step what get_artwork_data returns
Returns(r) ==
    /\ rq'[r] # rq[r]
    /\ rq[r].pc \in {"idle", "done", "progress", "acquire", "locked"}
    /\ rq'[r].via # ""

\* a scan of the key is running that holds no entry scanned before the key's last
\* refresh, or the start decision of some request is still under way
FreshScanUnderWay(k) ==
    \/ \E s \in RunningScans(k) : Titles(sc[s].media_list) \subseteq seen[k]
    \/ scanLock # 0

\* C3: the first get_artwork_data(m, a) after refresh(m, a) returns "in progress"
\* with a fresh full scan of the key started; it returns no cached, derived or
\* pre-refresh data.
C3_FreshScanAfterRefresh ==
    [][\A r \in ReqIds, k \in Keys :
          (/\ Returns(r)
           /\ rq'[r].post_refresh
           /\ k = _get_scan_key(rq'[r].media_type, rq'[r].artwork_type)) =>
              (rq'[r].ret = InProgress /\ FreshScanUnderWay(k)')]_vars

\* the file save_artwork_and_thumbnail writes for the artwork type
saved_artwork_name(artwork_type) ==
    artwork_name(file_prefix_of(artwork_type), IF artwork_type = "logo" THEN "png" ELSE "jpg")

\* the artwork_thumb of every entry of a cache document, None for no document
ThumbsOf(doc) ==
    IF doc = None THEN None
    ELSE [i \in 1..Len(doc.media_list) |-> doc.media_list[i].artwork_thumb]

\* C4: after a download of artwork type a into a movie directory and the
\* update_single_cache_entry that follows it, every existing movie cache with an
\* entry for the directory has has_<a> true in it, and artwork_thumb has changed in
\* no sibling cache.
C4_FlagInEveryCache ==
    [][\A directory \in DOMAIN files, a \in ArtTypes :
          saved_artwork_name(a) \in files'[directory] \ files[directory] =>
              \A other \in ArtTypes :
                  LET doc == read_cache(cacheFile', _get_scan_key("movie", other))
                  IN  /\ doc # None =>
                            \A i \in 1..Len(doc.media_list) :
                                doc.media_list[i].title = basename(directory) =>
                                    doc.media_list[i][has_key_of(a)]
                      /\ other # a =>
                            ThumbsOf(doc) =
                                ThumbsOf(read_cache(cacheFile, _get_scan_key("movie", other)))]_vars

----------------------------------------------------------------------------
(* Unavailability flags against scans: a library without artwork files, so *)
(* that no thumbnail backfill is ever due                                  *)

NoFiles == [p \in MediaPaths(SmallDirs) |-> {}]

InitMirror ==
    /\ dirs = SmallDirs
    /\ files = NoFiles
    /\ env = [ops |-> MaxOps, faults |-> 0, errors |-> MaxErrors, crashes |-> 0]
    /\ InitMemory

NextMirror ==
    \/ Request
    \/ RequestStep
    \/ ScanStep
    \/ ToggleUnavailable

SpecMirror == InitMirror /\ [][NextMirror]_vars

\* no request handler, scan thread or thumbnail thread is under way
Quiescent ==
    /\ \A r \in ReqIds : rq[r].pc \in {"idle", "done"}
    /\ \A s \in ScanIds : sc[s].pc = "idle"
    /\ \A t \in ThumbIds : th[t].pc = "idle"

\* C5: once scans, resumes, derivations, single-entry updates and
\* mark_artwork_unavailable calls have quiesced, every entry of every existing scan
\* cache carries, for every artwork type, the flag the unavailability store holds
\* for its title.
C5_UnavailabilityMirrored ==
    Quiescent =>
        \A k \in Keys :
            cacheFile[k] # None =>
                LET data == read_cache(cacheFile, k)
                IN  \A i \in 1..Len(data.media_list), a \in ArtTypes :
                        data.media_list[i][unavailable_key_of(a)]
                            = is_artwork_unavailable(data.media_list[i].title, a)

----------------------------------------------------------------------------
(* The cache and derivation paths of get_artwork_data                      *)

\* the request handler r enters get_artwork_data in this step
Enters(r) == rq[r].pc \in {"idle", "done"} /\ rq'[r] # rq[r]

\* the key's cache file holds a cache that load_scan_cache accepts
Cached(k) ==
    /\ cacheFile[k] # None
    /\ ~(read_cache(cacheFile, k).total = 0 /\ Len(read_cache(cacheFile, k).media_list) = 0)

\* some other artwork type of the media type has a cache with total > 0
Derivable(k) ==
    \E other \in ArtTypes :
        other # k[2] /\ Cached(<<k[1], other>>) /\ read_cache(cacheFile, <<k[1], other>>).total > 0

\* C6: when the key has a cache or a sibling cache is derivable, get_artwork_data
\* starts no background scan, takes no scan lock and writes no progress record; it
\* returns the cached entries and total, or the derived entries, which are then the
\* key's cache.
C6_CachePathStartsNoScan ==
    [][\A r \in ReqIds, k \in Keys :
          (/\ Enters(r)
           /\ k = _get_scan_key(rq'[r].media_type, rq'[r].artwork_type)
           /\ Cached(k) \/ Derivable(k)) =>
              /\ sc' = sc
              /\ scanLock' = scanLock
              /\ scanProgress' = scanProgress
              /\ rq'[r].pc = "done"
              /\ ~rq'[r].started
              /\ IF Cached(k)
                 THEN /\ rq'[r].ret = [media_list |-> read_cache(cacheFile, k).media_list,
                                       total |-> read_cache(cacheFile, k).total]
                      /\ cacheFile' = cacheFile
                 ELSE /\ rq'[r].ret.total = Len(rq'[r].ret.media_list)
                      /\ read_cache(cacheFile', k).media_list = rq'[r].ret.media_list
                      /\ read_cache(cacheFile', k).total = rq'[r].ret.total
                      /\ \A j \in Keys \ {k} : cacheFile'[j] = cacheFile[j]]_vars

\* a request has returned a derived list, which is now the key's cache
C6_Witness ==
    \E r \in ReqIds :
        /\ rq[r].pc = "done"
        /\ rq[r].via = "derived"
        /\ rq[r].ret.total > 0
        /\ cacheFile[_get_scan_key(rq[r].media_type, rq[r].artwork_type)] # None
        /\ read_cache(cacheFile, _get_scan_key(rq[r].media_type, rq[r].artwork_type)).media_list
               = rq[r].ret.media_list

----------------------------------------------------------------------------
(* The scan lock                                                           *)

\* C7: the scan lock is held only by a request handler inside the start decision of
\* get_artwork_data, never past its return and never by a scan thread; a handler
\* that finds it taken returns at once, so every handler outside the start decision
\* can always take its next step, whatever scans are running.
C7_LockOnlyAroundStartDecision ==
    /\ scanLock # 0 => scanLock \in ReqIds /\ rq[scanLock].pc \in {"locked", "release"}
    /\ \A r \in ReqIds :
          /\ rq[r].pc \in {"locked", "release"} => scanLock = r
          /\ rq[r].pc \in {"progress", "acquire", "release"} =>
                ENABLED (CheckProgress(r) \/ Acquire(r) \/ Release(r))

\* a scan is at work on a directory after the request that started it has returned
\* and released the lock
C7_Witness ==
    /\ scanLock = 0
    /\ \E r \in ReqIds, s \in ScanIds :
          /\ rq[r].pc = "done"
          /\ rq[r].started
          /\ sc[s].pc = "dir"
          /\ sc[s].key = _get_scan_key(rq[r].media_type, rq[r].artwork_type)

----------------------------------------------------------------------------
(* Failure of a scan and its resumption                                    *)

\* the scan thread s ends in its exception handler in this step
Fails(s) == sc[s].pc = "dir" /\ sc'[s].pc = "idle"

\* the checkpoint a failing scan leaves, and what a starting scan takes from one
CheckpointKept(s) ==
    /\ Fails(s) =>
          /\ ckptFile'[sc[s].key] = [media_list |-> sc[s].media_list,
                                    scanned_titles |-> sc[s].scanned_titles]
          /\ Titles(sc[s].media_list) = sc[s].scanned_titles
          /\ scanProgress'[sc[s].key].status = "error"
    /\ (sc[s].pc = "load" /\ sc'[s].pc # "load" /\ ckptFile[sc[s].key] # None) =>
          /\ sc'[s].media_list = ckptFile[sc[s].key].media_list
          /\ sc'[s].scanned_titles = ckptFile[sc[s].key].scanned_titles
          /\ sc'[s].pc = "root"

\* a request for key k passes the 'error' status and, with no cache, starts a scan
ScanStartedAfterError(r, k) ==
    (/\ k = _get_scan_key(rq[r].media_type, rq[r].artwork_type)
     /\ rq'[r] # rq[r]) =>
        /\ (/\ rq[r].pc = "progress"
            /\ scanProgress[k] # None
            /\ scanProgress[k].status = "error") => rq'[r].pc = "acquire"
        /\ (rq[r].pc = "locked" /\ ~Cached(k)) =>
              /\ rq'[r].started
              /\ \E s \in ScanIds : sc[s].pc = "idle" /\ sc'[s].pc = "load" /\ sc'[s].key = k

----------------------------------------------------------------------------
(* Derivation                                                              *)

\* the entry new_entry carries over title, path, clean_id and the has_* flags of item
SameDirectory(new_entry, item) ==
    /\ new_entry.title = item.title
    /\ new_entry.path = item.path
    /\ new_entry.clean_id = item.clean_id
    /\ new_entry.has_poster = item.has_poster
    /\ new_entry.has_logo = item.has_logo
    /\ new_entry.has_backdrop = item.has_backdrop

\* C9: with a populated (movie, poster) cache and no (movie, backdrop) cache,
\* _derive_cache_from_existing(movie, backdrop) returns one entry per poster entry,
\* in the same order, with the same title, path, clean_id, has_poster, has_logo and
\* has_backdrop, and with artwork and artwork_thumb unset wherever has_backdrop is
\* false.
C9_DerivedFromPoster ==
    LET source == read_cache(cacheFile, _get_scan_key("movie", "poster"))
        derived == _derive_cache_from_existing("movie", "backdrop")
    IN  (/\ Cached(_get_scan_key("movie", "poster"))
         /\ source.total > 0
         /\ cacheFile[_get_scan_key("movie", "backdrop")] = None) =>
            /\ derived # None
            /\ Len(derived.media_list) = Len(source.media_list)
            /\ \A i \in 1..Len(source.media_list) :
                  /\ SameDirectory(derived.media_list[i], source.media_list[i])
                  /\ ~source.media_list[i].has_backdrop =>
                        /\ derived.media_list[i].artwork = None
                        /\ derived.media_list[i].artwork_thumb = None

\* a backdrop list derived from the poster cache has been returned, with an entry
\* that has a backdrop and one that has a poster and no backdrop
C9_Witness ==
    \E r \in ReqIds :
        /\ rq[r].pc = "done"
        /\ rq[r].via = "derived"
        /\ rq[r].artwork_type = "backdrop"
        /\ \E i, j \in 1..Len(rq[r].ret.media_list) :
              /\ rq[r].ret.media_list[i].has_backdrop
              /\ rq[r].ret.media_list[i].artwork # None
              /\ ~rq[r].ret.media_list[j].has_backdrop
              /\ rq[r].ret.media_list[j].has_poster

----------------------------------------------------------------------------
(* The cache file round trip: save_scan_cache followed by load_scan_cache  *)

MaxLen == 2
MaxTotal == 1
MaxSaves == 2

SampleFiles == {{}, {"poster.jpg", "poster-thumb.jpg"}}

\* entries as scan_single_directory builds them: without artwork, with artwork
\* in a lightweight scan (null metadata), with artwork and its metadata
SampleEntries ==
    {scan_single_directory("Heat", path_join("/m1", "Heat"), "poster", fs, lightweight).entry :
        fs \in SampleFiles, lightweight \in BOOLEAN}

SampleLists == UNION {[1..n -> SampleEntries] : n \in 0..MaxLen}

\* one call of save_scan_cache, with any entry list and any total
SaveCache ==
    \E k \in CallKeys, media_list \in SampleLists, total \in 0..MaxTotal :
        /\ env.ops > 0
        /\ env' = Spend("ops", 1)
        /\ cacheFile' = save_scan_cache(cacheFile, k[1], k[2], media_list, total)
        /\ UNCHANGED <<_smb_health, now, ac, mapFile, call, dirs, files, ckptFile, unavail, thumbCache, scanLock, scanProgress,
                       thumbStarted, rq, sc, th, seen, fresh>>

InitCache ==
    /\ dirs = SmallDirs
    /\ files = NoFiles
    /\ env = [ops |-> MaxSaves, faults |-> 0, errors |-> 0, crashes |-> 0]
    /\ InitMemory

NextCache == SaveCache

SpecCache == InitCache /\ [][NextCache]_vars

SavedAs(k, media_list, total) ==
    cacheFile' = save_scan_cache(cacheFile, k[1], k[2], media_list, total)

LoadsAs(k, media_list, total) ==
    load_scan_cache(k[1], k[2]) = [media_list |-> media_list, total |-> total]

\* C10: for every cache key and every entry list saved with total > 0,
\* load_scan_cache called after save_scan_cache returns exactly the saved
\* entries and the saved total, and so it does for as long as no later step
\* writes that key's file
C10_LoadAfterSave ==
    [][\A k \in CallKeys, media_list \in SampleLists, total \in 1..MaxTotal :
          /\ SavedAs(k, media_list, total) => LoadsAs(k, media_list, total)'
          /\ (LoadsAs(k, media_list, total) /\ cacheFile'[k] = cacheFile[k])
                 => LoadsAs(k, media_list, total)']_vars

\* a list saved under a total other than its length, with null and string
\* artwork fields, is loaded back
C10_Witness ==
    \E k \in Keys :
        /\ load_scan_cache(k[1], k[2]) # None
        /\ load_scan_cache(k[1], k[2]).total # Len(load_scan_cache(k[1], k[2]).media_list)
        /\ \E i, j \in 1..Len(load_scan_cache(k[1], k[2]).media_list) :
               /\ load_scan_cache(k[1], k[2]).media_list[i].artwork = None
               /\ load_scan_cache(k[1], k[2]).media_list[j].artwork_dimensions # None

\* the file of key k holds a document of zero entries and zero total
EmptyDocument(k) ==
    /\ cacheFile[k] # None
    /\ read_cache(cacheFile, k).total = 0
    /\ Len(read_cache(cacheFile, k).media_list) = 0

\* C11: save_scan_cache with zero entries and total 0 followed by
\* load_scan_cache for the same key returns absent, and a cache of zero
\* entries and zero total is never reported as present
C11_EmptyCacheAbsent ==
    [][\A k \in CallKeys :
          /\ SavedAs(k, <<>>, 0) => (load_scan_cache(k[1], k[2]) = None)'
          /\ EmptyDocument(k)' => (load_scan_cache(k[1], k[2]) = None)']_vars

\* an empty document is on file for one key and reads as absent, while the
\* other key's cache is present
C11_Witness ==
    \E k, other \in CallKeys :
        /\ EmptyDocument(k)
        /\ load_scan_cache(k[1], k[2]) = None
        /\ load_scan_cache(other[1], other[2]) # None

\* load_scan_cache reports the cache of key k as present
Present(k) == load_scan_cache(k[1], k[2]) # None

\* C12: a cache never silently expires: once load_scan_cache(m, a) returns a
\* present cache it stays present until refresh is invoked for that same key
\* (m, a); a step that makes it absent is a refresh of (m, a), never a refresh
\* of another artwork category, a thumbnail backfill, a single-entry update
\* or an unavailability update
C12_NeverSilentlyExpires ==
    [][\A k \in Keys : (Present(k) /\ ~Present(k)') => Refresh(k[1], k[2])]_vars

----------------------------------------------------------------------------
(* The directory-listing accessors: safe_listdir of app.py and safe_listdir *)
(* of utils/file_utils.py, over os.listdir calls that may fail              *)

MaxPattern == 3

\* default of the retries parameter of app.py's safe_listdir
retries == 3
\* default of the retries parameter of file_utils.safe_listdir
file_utils_retries == 8

\* what one os.listdir call may do: succeed, or raise BlockingIOError (EAGAIN),
\* NotADirectoryError (errno 20), FileNotFoundError or PermissionError
Errnos == {"EAGAIN", "ENOTDIR", "ENOENT", "EACCES"}

\* failure patterns: the outcome of each attempt in turn, the last one lasting
Patterns == UNION {[1..n -> Errnos \cup {"OK"}] : n \in 1..MaxPattern}

outcome_at(pattern, attempt) ==
    pattern[IF attempt + 1 <= Len(pattern) THEN attempt + 1 ELSE Len(pattern)]

\* paths as component sequences: a root, a media directory, a file in it
SamplePaths ==
    {<<"/m1">>, <<"/m1", "Breaking Bad">>, <<"/m1", "Breaking Bad", "poster.jpg">>,
     <<"/m1", "Heat">>, <<"/nowhere">>}

returned(value) == [returns |-> "list", value |-> value, errno |-> ""]

raised(errno) == [returns |-> "raise", value |-> {}, errno |-> errno]

\* os.listdir on the mount when the mount answers
listing(path) ==
    IF Len(path) = 1
    THEN IF path[1] \in DOMAIN dirs THEN returned(dirs[path[1]]) ELSE raised("ENOENT")
    ELSE IF Len(path) = 2
    THEN IF path \in DOMAIN files THEN returned(files[path]) ELSE raised("ENOENT")
    ELSE IF <<path[1], path[2]>> \in DOMAIN files /\ path[3] \in files[<<path[1], path[2]>>]
    THEN raised("ENOTDIR")
    ELSE raised("ENOENT")

os_listdir(path, outcome) == IF outcome = "OK" THEN listing(path) ELSE raised(outcome)

RECURSIVE safe_listdir_loop(_, _, _)
\* app.py lines 77-100, from attempt on
safe_listdir_loop(attempt, path, pattern) ==
    IF attempt >= retries THEN [returns |-> "None", value |-> {}, errno |-> ""]
    ELSE LET result == os_listdir(path, outcome_at(pattern, attempt))
         IN  IF result.returns = "list" THEN result
             ELSE IF result.errno = "EAGAIN"
             THEN IF attempt < retries - 1
                  THEN safe_listdir_loop(attempt + 1, path, pattern)
                  ELSE returned({})
             ELSE IF result.errno = "ENOTDIR" THEN returned({})
             ELSE IF attempt < retries - 1
             THEN safe_listdir_loop(attempt + 1, path, pattern)
             ELSE returned({})

safe_listdir(path, pattern) == safe_listdir_loop(0, path, pattern)

RECURSIVE file_utils_safe_listdir_loop(_, _, _)
\* utils/file_utils.py lines 24-30, from attempt on: only BlockingIOError is caught
file_utils_safe_listdir_loop(attempt, path, pattern) ==
    IF attempt >= file_utils_retries THEN returned({})
    ELSE LET result == os_listdir(path, outcome_at(pattern, attempt))
         IN  IF result.returns = "list" THEN result
             ELSE IF result.errno = "EAGAIN"
             THEN file_utils_safe_listdir_loop(attempt + 1, path, pattern)
             ELSE result

file_utils_safe_listdir(path, pattern) == file_utils_safe_listdir_loop(0, path, pattern)

ListDirectory ==
    \E path \in SamplePaths, pattern \in Patterns :
        /\ call = None
        /\ call' = [fn |-> "safe_listdir", path |-> path, pattern |-> pattern,
                    result |-> safe_listdir(path, pattern)]
        /\ UNCHANGED <<_smb_health, now, ac, mapFile, dirs, files, cacheFile, ckptFile, unavail, thumbCache, scanLock,
                       scanProgress, thumbStarted, rq, sc, th, env, seen, fresh>>

FileUtilsListDirectory ==
    \E path \in SamplePaths, pattern \in Patterns :
        /\ call = None
        /\ call' = [fn |-> "file_utils.safe_listdir", path |-> path, pattern |-> pattern,
                    result |-> file_utils_safe_listdir(path, pattern)]
        /\ UNCHANGED <<_smb_health, now, ac, mapFile, dirs, files, cacheFile, ckptFile, unavail, thumbCache, scanLock,
                       scanProgress, thumbStarted, rq, sc, th, env, seen, fresh>>

InitAccessor ==
    /\ dirs = SmallDirs
    /\ files = SmallFiles
    /\ env = [ops |-> 0, faults |-> 0, errors |-> 0, crashes |-> 0]
    /\ InitMemory

NextAccessor ==
    \/ ListDirectory
    \/ FileUtilsListDirectory

SpecAccessor == InitAccessor /\ [][NextAccessor]_vars

\* every os.listdir attempt of the call failed
EveryAttemptFails(path, pattern) ==
    \A i \in 1..Len(pattern) : os_listdir(path, pattern[i]).returns = "raise"

\* C13: the directory-listing accessor never raises: for every path and every
\* failure pattern of the filesystem (transient errors on every attempt, or
\* permanent errors such as not-a-directory, not-found or permission-denied)
\* safe_listdir returns a sequence of names, which is empty on failure
C13_ListdirNeverRaises ==
    (call # None /\ call.fn \in {"safe_listdir", "file_utils.safe_listdir"})
        => /\ call.result.returns = "list"
           /\ EveryAttemptFails(call.path, call.pattern) => call.result.value = {}

----------------------------------------------------------------------------
(* Title normalisation and difflib's similarity ratio                      *)

\* normalize_title: re.sub(r'[^a-z0-9]+', '', title.lower())
normalize_title(s) == SelectSeq(lower(s), IsAlnum)

\* the element of a set of one element: only({f(x) : x \in {e}}) is f(e) with e
\* evaluated once
only(S) == CHOOSE x \in S : TRUE

\* block x is longer than block y, or as long and not later in a, then in b
block_precedes(x, y) ==
    \/ x[3] > y[3]
    \/ x[3] = y[3] /\ x[1] < y[1]
    \/ x[3] = y[3] /\ x[1] = y[1] /\ x[2] <= y[2]

RECURSIVE run_length(_, _, _, _, _, _)
\* the length of the common run of a[i:ahi] and b[j:bhi] (0-based, half-open)
run_length(a, b, i, j, ahi, bhi) ==
    IF i < ahi /\ j < bhi /\ a[i + 1] = b[j + 1]
    THEN 1 + run_length(a, b, i + 1, j + 1, ahi, bhi)
    ELSE 0

\* SequenceMatcher.find_longest_match without junk: the longest block, of those
\* the one starting earliest in a, of those the one starting earliest in b
find_longest_match(a, b, alo, ahi, blo, bhi) ==
    only({IF found = {} THEN <<alo, blo, 0>>
          ELSE CHOOSE x \in found : \A y \in found : block_precedes(x, y) :
             found \in {{x \in {<<i, j, run_length(a, b, i, j, ahi, bhi)>> :
                                   i \in alo..(ahi - 1), j \in blo..(bhi - 1)} : x[3] > 0}}})

RECURSIVE matches(_, _, _, _, _, _)
\* the summed sizes of SequenceMatcher.get_matching_blocks within the two ranges
matches(a, b, alo, ahi, blo, bhi) ==
    IF alo >= ahi \/ blo >= bhi THEN 0
    ELSE only({IF x[3] = 0 THEN 0
               ELSE x[3] + matches(a, b, alo, x[1], blo, x[2])
                         + matches(a, b, x[1] + x[3], ahi, x[2] + x[3], bhi) :
                  x \in {find_longest_match(a, b, alo, ahi, blo, bhi)}})

\* SequenceMatcher(None, a, b).ratio() as the fraction 2.0 * matches / length,
\* and 1.0 for two empty strings
ratio(a, b) ==
    only({IF Len(x) + Len(y) = 0 THEN [num |-> 1, den |-> 1]
          ELSE [num |-> 2 * matches(x, y, 0, Len(x), 0, Len(y)), den |-> Len(x) + Len(y)] :
             x \in {a}, y \in {b}})

\* x > y and x >= tenths / 10 on ratios; the floating-point quotients of such
\* small integers order as the fractions do
ratio_greater(x, y) == x.num * y.den > y.num * x.den

ratio_at_least(x, tenths) == 10 * x.num >= tenths * x.den

----------------------------------------------------------------------------
(* utils/mapping_utils.py: the TMDb id -> directory mapping file, kept as  *)
(* the dictionary it decodes to.  A path that is None or empty is <<>>.    *)

NoPath == <<>>

\* f"{media_type}_{tmdb_id}"
mapping_key(media_type, tmdb_id) == <<media_type, tmdb_id>>

\* os.path.exists / os.path.isdir of a media directory path
path_exists(fs, directory_path) ==
    /\ directory_path # NoPath
    /\ directory_path[1] \in DOMAIN fs
    /\ directory_path[2] \in fs[directory_path[1]]

\* the dictionary save_mapped_directory creates for a new key
new_mapping_entry(directory_path) ==
    [legacy |-> FALSE, directory |-> directory_path, artwork_availability |-> <<>>]

\* mapping[key].get('directory') of a dictionary, or the old format's plain string
mapped_directory_of(entry) == entry.directory

\* del mapping[key]
without_key(mapping, key) == [k \in DOMAIN mapping \ {key} |-> mapping[k]]

\* mapping[key] = value
with_key(mapping, key, value) ==
    [k \in DOMAIN mapping \cup {key} |-> IF k = key THEN value ELSE mapping[k]]

\* a variant of get_mapped_directory that trusts the file: no existence check
get_mapped_directory_unchecked(mapping, fs, tmdb_id, media_type) ==
    LET key == mapping_key(media_type, tmdb_id)
    IN  IF key \notin DOMAIN mapping THEN [result |-> NoPath, mapping |-> mapping]
        ELSE [result |-> mapping[key].directory, mapping |-> mapping]

\* get_mapped_directory: what it returns and the mapping file it leaves
get_mapped_directory(mapping, fs, tmdb_id, media_type) ==
    LET key == mapping_key(media_type, tmdb_id)
    IN  IF key \notin DOMAIN mapping THEN [result |-> NoPath, mapping |-> mapping]
        ELSE LET mapped_dir == mapped_directory_of(mapping[key])
             IN  IF mapped_dir # NoPath /\ path_exists(fs, mapped_dir)
                 THEN [result |-> mapped_dir, mapping |-> mapping]
                 ELSE IF mapped_dir # NoPath
                 THEN [result |-> NoPath, mapping |-> without_key(mapping, key)]
                 ELSE [result |-> NoPath, mapping |-> mapping]

\* save_mapped_directory: the mapping file it leaves
save_mapped_directory(mapping, tmdb_id, media_type, directory_path) ==
    LET key == mapping_key(media_type, tmdb_id)
    IN  IF key \in DOMAIN mapping /\ ~mapping[key].legacy
        THEN [mapping EXCEPT ![key].directory = directory_path]
        ELSE with_key(mapping, key, new_mapping_entry(directory_path))

\* mapping_utils.mark_artwork_unavailable: the mapping file it leaves
mapping_mark_artwork_unavailable(mapping, tmdb_id, media_type, artwork_type) ==
    LET key == mapping_key(media_type, tmdb_id)
        entry == IF key \notin DOMAIN mapping THEN new_mapping_entry(NoPath)
                 ELSE IF mapping[key].legacy THEN new_mapping_entry(mapping[key].directory)
                 ELSE mapping[key]
        availability == entry.artwork_availability
    IN  with_key(mapping, key,
            [entry EXCEPT !.artwork_availability =
                [t \in DOMAIN availability \cup {artwork_type} |->
                    IF t = artwork_type THEN FALSE ELSE availability[t]]])

\* is_artwork_available: [bool |-> the stored flag], or None when nothing is stored
is_artwork_available(mapping, tmdb_id, media_type, artwork_type) ==
    LET key == mapping_key(media_type, tmdb_id)
    IN  IF key \in DOMAIN mapping /\ ~mapping[key].legacy
           /\ artwork_type \in DOMAIN mapping[key].artwork_availability
        THEN [bool |-> mapping[key].artwork_availability[artwork_type]]
        ELSE None

----------------------------------------------------------------------------
(* ArtworkService.find_matching_directory                                  *)

RECURSIVE Orderings(_)
\* the orders in which os.listdir may return the names of a directory
Orderings(S) ==
    IF S = {} THEN {<<>>}
    ELSE UNION {{<<x>> \o o : o \in Orderings(S \ {x})} : x \in S}

\* "@eadir" and "#recycle"
SystemFolders == {<<64, 101, 97, 100, 105, 114>>, <<35, 114, 101, 99, 121, 99, 108, 101>>}

RECURSIVE hinted_path(_, _, _, _)
\* tier 1, lines 321-328: the first root under which the hint is a directory
hinted_path(fs, base_folders, i, directory_hint) ==
    IF i > Len(base_folders) THEN NoPath
    ELSE IF path_exists(fs, path_join(base_folders[i], directory_hint))
    THEN path_join(base_folders[i], directory_hint)
    ELSE hinted_path(fs, base_folders, i + 1, directory_hint)

RECURSIVE listed_paths(_, _, _)
\* the (base_folder, directory) pairs in the order the loops of tier 3 meet them
listed_paths(base_folders, i, order) ==
    IF i > Len(base_folders) THEN <<>>
    ELSE [n \in 1..Len(order[base_folders[i]]) |->
             path_join(base_folders[i], order[base_folders[i]][n])]
         \o listed_paths(base_folders, i + 1, order)

RECURSIVE fuzzy_loop(_, _, _, _, _)
\* tier 3, lines 341-362: the best similarity so far and its directory, or the
\* first directory whose normalized name equals the normalized title
fuzzy_loop(candidates, i, normalized_title, best_similarity, best_match_dir) ==
    IF i > Len(candidates)
    THEN [exact |-> NoPath, best_similarity |-> best_similarity,
          best_match_dir |-> best_match_dir]
    ELSE IF lower(Chars(candidates[i][2])) \in SystemFolders
    THEN fuzzy_loop(candidates, i + 1, normalized_title, best_similarity, best_match_dir)
    ELSE LET normalized_dir == normalize_title(Chars(candidates[i][2]))
             similarity == ratio(normalized_title, normalized_dir)
             better == ratio_greater(similarity, best_similarity)
         IN  IF normalized_title = normalized_dir
             THEN [exact |-> candidates[i],
                   best_similarity |-> IF better THEN similarity ELSE best_similarity,
                   best_match_dir |-> IF better THEN candidates[i] ELSE best_match_dir]
             ELSE fuzzy_loop(candidates, i + 1, normalized_title,
                             IF better THEN similarity ELSE best_similarity,
                             IF better THEN candidates[i] ELSE best_match_dir)

\* tier 3 as a whole: the directory chosen, NoPath when none qualifies
fuzzy_match(base_folders, media_title, order) ==
    LET end == fuzzy_loop(listed_paths(base_folders, 1, order), 1,
                          normalize_title(Chars(media_title)), [num |-> 0, den |-> 1], NoPath)
    IN  IF end.exact # NoPath THEN end.exact
        ELSE IF ratio_at_least(end.best_similarity, 9) THEN end.best_match_dir
        ELSE NoPath

\* find_matching_directory: what it returns and the mapping file it leaves;
\* directory_hint "" is no hint, order is the listing order of each root
find_matching_directory(mapping, fs, media_title, tmdb_id, media_type, directory_hint, order) ==
    LET base_folders == base_folders_of(media_type)
        hinted == IF directory_hint = "" THEN NoPath
                  ELSE hinted_path(fs, base_folders, 1, directory_hint)
        mapped == get_mapped_directory(mapping, fs, tmdb_id, media_type)
        fuzzy == fuzzy_match(base_folders, media_title, order)
    IN  IF hinted # NoPath
        THEN [result |-> hinted, tier |-> 1,
              mapping |-> save_mapped_directory(mapping, tmdb_id, media_type, hinted)]
        ELSE IF mapped.result # NoPath
        THEN [result |-> mapped.result, tier |-> 2, mapping |-> mapped.mapping]
        ELSE IF fuzzy # NoPath
        THEN [result |-> fuzzy, tier |-> 3,
              mapping |-> save_mapped_directory(mapped.mapping, tmdb_id, media_type, fuzzy)]
        ELSE [result |-> NoPath, tier |-> 3, mapping |-> mapped.mapping]

----------------------------------------------------------------------------
(* Directory resolution over the mapping file                              *)

\* calls on the mapping file per run
MaxResolves == 2

TmdbIds == {603, 27205}

Hints == {"", "Heat"}

\* the library of the resolution runs
ResolveDirs ==
    [r \in Roots |-> CASE r = "/m1" -> {"Matrix 1999", "Inception"}
                       [] r = "/m2" -> {"Heat", "@eaDir"}
                       [] r = "/t1" -> {"Fargo"}]

\* a mapping file of the old format: the directory as a plain string
LegacyMapping ==
    [k \in {mapping_key("movie", 27205)} |->
        [legacy |-> TRUE, directory |-> path_join("/m2", "Heat"), artwork_availability |-> <<>>]]

\* the listing orders of every root
ListingOrders ==
    {order \in [Roots -> UNION {Orderings(dirs[r]) : r \in Roots}] :
        \A r \in Roots : order[r] \in Orderings(dirs[r])}

\* the directory the mapping file records for the key, NoPath when none
recorded_directory(mapping, media_type, tmdb_id) ==
    IF mapping_key(media_type, tmdb_id) \in DOMAIN mapping
    THEN mapping[mapping_key(media_type, tmdb_id)].directory
    ELSE NoPath

FindDirectory ==
    \E media_title \in MediaTitles, tmdb_id \in TmdbIds, directory_hint \in Hints,
       order \in ListingOrders :
        /\ env.ops > 0
        /\ \E found \in {find_matching_directory(mapFile, dirs, media_title, tmdb_id, "movie",
                                                 directory_hint, order)} :
            /\ env' = Spend("ops", 1)
            /\ mapFile' = found.mapping
            /\ call' = [fn |-> "find_matching_directory", op |-> env.ops,
                        media_title |-> media_title, tmdb_id |-> tmdb_id,
                        media_type |-> "movie", directory_hint |-> directory_hint,
                        recorded |-> recorded_directory(mapFile, "movie", tmdb_id),
                        result |-> found.result, tier |-> found.tier]
            /\ UNCHANGED <<_smb_health, now, ac, dirs, files, cacheFile, ckptFile, unavail, thumbCache, scanLock,
                           scanProgress, thumbStarted, rq, sc, th, seen, fresh>>

GetMappedDirectory ==
    \E tmdb_id \in TmdbIds :
        LET got == get_mapped_directory(mapFile, dirs, tmdb_id, "movie")
        IN  /\ env.ops > 0
            /\ env' = Spend("ops", 1)
            /\ mapFile' = got.mapping
            /\ call' = [fn |-> "get_mapped_directory", op |-> env.ops,
                        media_title |-> "", tmdb_id |-> tmdb_id,
                        media_type |-> "movie", directory_hint |-> "",
                        recorded |-> recorded_directory(mapFile, "movie", tmdb_id),
                        result |-> got.result, tier |-> 2]
            /\ UNCHANGED <<_smb_health, now, ac, dirs, files, cacheFile, ckptFile, unavail, thumbCache, scanLock,
                           scanProgress, thumbStarted, rq, sc, th, seen, fresh>>

SaveMappedDirectory ==
    \E tmdb_id \in TmdbIds, directory_path \in DOMAIN files :
        /\ env.ops > 0
        /\ env' = Spend("ops", 1)
        /\ mapFile' = save_mapped_directory(mapFile, tmdb_id, "movie", directory_path)
        /\ call' = [fn |-> "save_mapped_directory", op |-> env.ops,
                    media_title |-> "", tmdb_id |-> tmdb_id,
                    media_type |-> "movie", directory_hint |-> "",
                    recorded |-> recorded_directory(mapFile, "movie", tmdb_id),
                    result |-> NoPath, tier |-> 0]
        /\ UNCHANGED <<_smb_health, now, ac, dirs, files, cacheFile, ckptFile, unavail, thumbCache, scanLock,
                       scanProgress, thumbStarted, rq, sc, th, seen, fresh>>

MarkUnavailable ==
    \E tmdb_id \in TmdbIds, artwork_type \in {"logo"} :
        /\ env.ops > 0
        /\ env' = Spend("ops", 1)
        /\ mapFile' = mapping_mark_artwork_unavailable(mapFile, tmdb_id, "movie", artwork_type)
        /\ call' = [fn |-> "mark_artwork_unavailable", op |-> env.ops,
                    media_title |-> "", tmdb_id |-> tmdb_id,
                    media_type |-> "movie", directory_hint |-> "",
                    recorded |-> recorded_directory(mapFile, "movie", tmdb_id),
                    result |-> NoPath, tier |-> 0]
        /\ UNCHANGED <<_smb_health, now, ac, dirs, files, cacheFile, ckptFile, unavail, thumbCache, scanLock,
                       scanProgress, thumbStarted, rq, sc, th, seen, fresh>>

\* the environment removes a media directory from the mount
RemoveDirectory ==
    \E directory_path \in DOMAIN files :
        /\ env.crashes > 0
        /\ env' = Spend("crashes", 1)
        /\ dirs' = [dirs EXCEPT ![directory_path[1]] = @ \ {directory_path[2]}]
        /\ files' = [p \in DOMAIN files \ {directory_path} |-> files[p]]
        /\ UNCHANGED <<_smb_health, now, ac, mapFile, call, cacheFile, ckptFile, unavail, thumbCache, scanLock,
                       scanProgress, thumbStarted, rq, sc, th, seen, fresh>>

InitResolve ==
    /\ dirs = ResolveDirs
    /\ files = [p \in MediaPaths(ResolveDirs) |-> {}]
    /\ env = [ops |-> MaxResolves, faults |-> 0, errors |-> 0, crashes |-> MaxCrashes]
    /\ cacheFile = [k \in Keys |-> None]
    /\ ckptFile = [k \in Keys |-> None]
    /\ unavail = {}
    /\ thumbCache = {}
    /\ scanLock = 0
    /\ scanProgress = [k \in Keys |-> None]
    /\ thumbStarted = {}
    /\ rq = [r \in ReqIds |-> IdleRequest]
    /\ sc = [s \in ScanIds |-> IdleScan]
    /\ th = [t \in ThumbIds |-> IdleThumb]
    /\ seen = [k \in Keys |-> {}]
    /\ fresh = [k \in Keys |-> FALSE]
    /\ mapFile \in {<<>>, LegacyMapping}
    /\ call = None
    /\ InitHealth

NextResolve ==
    \/ FindDirectory
    \/ GetMappedDirectory
    \/ SaveMappedDirectory
    \/ MarkUnavailable
    \/ RemoveDirectory

SpecResolve == InitResolve /\ [][NextResolve]_vars

\* this step is a call of find_matching_directory
Finds == call' # call /\ call'.fn = "find_matching_directory"

\* the roots under which the hint of the call names a directory
HintedPaths ==
    {path_join(movie_folders[i], call'.directory_hint) : i \in 1..Len(movie_folders)}
        \cap {p \in DOMAIN files : call'.directory_hint # ""}

StrictTierOrder ==
    LET key == mapping_key("movie", call'.tmdb_id)
        recorded == recorded_directory(mapFile, "movie", call'.tmdb_id)
    IN  /\ HintedPaths # {} => call'.result \in HintedPaths
        /\ (HintedPaths = {} /\ recorded # NoPath /\ recorded \in DOMAIN files)
               => call'.result = recorded
        /\ (HintedPaths = {} /\ recorded # NoPath /\ recorded \notin DOMAIN files)
               => /\ call'.result # recorded
                  /\ recorded_directory(mapFile', "movie", call'.tmdb_id) # recorded
        /\ call'.result # NoPath
               => recorded_directory(mapFile', "movie", call'.tmdb_id) = call'.result

\* C14: find_matching_directory resolves in strict tier order: a directory
\* hint that exists under some root is returned regardless of any persisted
\* mapping; otherwise a persisted mapping is returned only if its directory
\* still exists, and a mapping whose directory no longer exists is removed and
\* never returned; whenever a path is returned, the persisted mapping of
\* (identifier, media type) points to that path afterwards
C14_StrictTierOrder == [][Finds => StrictTierOrder]_vars

\* a call found the recorded directory gone, dropped it, and resolved the
\* title to another directory by fuzzy matching, which the mapping now records
C14_Witness ==
    /\ call # None
    /\ call.fn = "find_matching_directory"
    /\ call.recorded # NoPath
    /\ call.recorded \notin DOMAIN files
    /\ call.tier = 3
    /\ call.result # NoPath
    /\ recorded_directory(mapFile, "movie", call.tmdb_id) = call.result

----------------------------------------------------------------------------
(* select_artwork without a usable directory: resolution by title          *)

RECURSIVE title_loop(_, _, _, _, _)
\* app.py lines 1426-1446: the best similarity so far and its directory, or the
\* first directory whose name is the media title itself
title_loop(candidates, i, media_title, best_similarity, best_match_dir) ==
    IF i > Len(candidates)
    THEN [save_dir |-> NoPath, best_similarity |-> best_similarity,
          best_match_dir |-> best_match_dir]
    ELSE LET similarity == ratio(normalize_title(Chars(media_title)),
                                 normalize_title(Chars(candidates[i][2])))
             better == ratio_greater(similarity, best_similarity)
         IN  IF candidates[i][2] = media_title
             THEN [save_dir |-> candidates[i],
                   best_similarity |-> IF better THEN similarity ELSE best_similarity,
                   best_match_dir |-> IF better THEN candidates[i] ELSE best_match_dir]
             ELSE title_loop(candidates, i + 1, media_title,
                             IF better THEN similarity ELSE best_similarity,
                             IF better THEN candidates[i] ELSE best_match_dir)

\* app.py lines 1414-1470: the directory select_artwork saves to, NoPath when it
\* renders the directory selection page instead; the threshold is 0.8
select_artwork_directory(media_type, media_title, order) ==
    LET end == title_loop(listed_paths(base_folders_of(media_type), 1, order), 1, media_title,
                          [num |-> 0, den |-> 1], NoPath)
    IN  IF end.save_dir # NoPath THEN end.save_dir
        ELSE IF ratio_at_least(end.best_similarity, 8) THEN end.best_match_dir
        ELSE NoPath

\* select_artwork with no directory given, lines 1413-1495; success is whether
\* save_artwork_and_thumbnail returned a path
SelectArtworkByTitle ==
    \E media_title \in MediaTitles, artwork_type \in {"poster"}, order \in ListingOrders,
       success \in BOOLEAN :
        /\ env.ops > 0
        /\ \E save_dir \in {select_artwork_directory("movie", media_title, order)} :
              LET written == save_dir # NoPath /\ success
                  saved == IF written
                           THEN [files EXCEPT ![save_dir] = downloaded(@, artwork_type)]
                           ELSE IF save_dir # NoPath
                           THEN [files EXCEPT ![save_dir] = removed(@, artwork_type)]
                           ELSE files
              IN  /\ env' = Spend("ops", 1)
                  /\ files' = saved
                  /\ cacheFile' = IF written
                                  THEN update_single_cache_entry(saved, cacheFile, "movie",
                                           artwork_type, save_dir, TRUE, TRUE)
                                  ELSE cacheFile
                  /\ thumbCache' = IF written
                                   THEN thumbCache \cup
                                          update_copied(saved, cacheFile, "movie",
                                                        artwork_type, save_dir, TRUE, TRUE)
                                   ELSE thumbCache
                  /\ call' = [fn |-> "select_artwork", op |-> env.ops,
                              media_title |-> media_title, tmdb_id |-> 0,
                              media_type |-> "movie", directory_hint |-> "",
                              recorded |-> NoPath, result |-> save_dir, tier |-> 3]
        /\ UNCHANGED <<_smb_health, now, ac, mapFile, dirs, ckptFile, unavail, scanLock,
                       scanProgress, thumbStarted, rq, sc, th, seen, fresh>>

NextDownload ==
    \/ NextResolve
    \/ SelectArtworkByTitle

SpecDownload == InitResolve /\ [][NextDownload]_vars

\* this step resolved a directory by fuzzy matching: tier 3 of
\* find_matching_directory, or select_artwork called without a directory
ResolvesByTitle ==
    /\ call' # call
    /\ \/ call'.fn = "find_matching_directory" /\ call'.tier = 3
       \/ call'.fn = "select_artwork"

\* the directory clears the bar of the claim for the title
Qualifies(media_title, path) ==
    LET normalized_title == normalize_title(Chars(media_title))
        normalized_dir == normalize_title(Chars(path[2]))
    IN  \/ normalized_title = normalized_dir
        \/ ratio_at_least(ratio(normalized_title, normalized_dir), 9)

AcceptsOnlyQualified ==
    /\ call'.result # NoPath => Qualifies(call'.media_title, call'.result)
    /\ \A p \in DOMAIN files : files'[p] # files[p] => p = call'.result
    /\ call'.result = NoPath
           => /\ files' = files
              /\ \A key \in DOMAIN mapFile' :
                    key \in DOMAIN mapFile /\ mapFile'[key] = mapFile[key]

\* C15: when the directory of a download is resolved by fuzzy matching, a
\* candidate directory is accepted only if its similarity ratio to the
\* normalized title is at least 0.9 or its normalized name equals the
\* normalized title; if no candidate qualifies, no directory is chosen, nothing
\* is written to any directory and no mapping is persisted
C15_FuzzyAcceptance == [][ResolvesByTitle => AcceptsOnlyQualified]_vars

----------------------------------------------------------------------------
(* C16: availability flags under directory resolution                      *)

\* this step is a directory-resolution operation on the mapping store
ResolvesDirectory ==
    /\ call' # call
    /\ call'.fn \in {"save_mapped_directory", "get_mapped_directory",
                     "find_matching_directory"}

\* C16: the per-artwork availability flags are independent of directory
\* resolution: no save_mapped_directory, get_mapped_directory (its pruning of a
\* stale directory included) or find_matching_directory changes the value
\* is_artwork_available returns for any (identifier, media type, artwork type)
C16_AvailabilityIndependent ==
    [][ResolvesDirectory =>
         \A tmdb_id \in TmdbIds, media_type \in MediaTypes, i \in DOMAIN ARTWORK_TYPES :
             is_artwork_available(mapFile', tmdb_id, media_type, ARTWORK_TYPES[i])
                 = is_artwork_available(mapFile, tmdb_id, media_type, ARTWORK_TYPES[i])]_vars

----------------------------------------------------------------------------
(* C17: one library of two candidate directories                           *)

\* the movie library holds the two candidates and nothing else
MatchDirs ==
    [r \in Roots |-> IF r = "/m1" THEN {"Matrix 1999", "Inception"} ELSE {}]

InitMatch ==
    /\ dirs = MatchDirs
    /\ files = [p \in MediaPaths(MatchDirs) |-> {}]
    /\ env = [ops |-> MaxResolves, faults |-> 0, errors |-> 0, crashes |-> 0]
    /\ cacheFile = [k \in Keys |-> None]
    /\ ckptFile = [k \in Keys |-> None]
    /\ unavail = {}
    /\ thumbCache = {}
    /\ scanLock = 0
    /\ scanProgress = [k \in Keys |-> None]
    /\ thumbStarted = {}
    /\ rq = [r \in ReqIds |-> IdleRequest]
    /\ sc = [s \in ScanIds |-> IdleScan]
    /\ th = [t \in ThumbIds |-> IdleThumb]
    /\ seen = [k \in Keys |-> {}]
    /\ fresh = [k \in Keys |-> FALSE]
    /\ mapFile = <<>>
    /\ call = None
    /\ InitHealth

NextMatch ==
    \/ FindDirectory
    \/ SelectArtworkByTitle

SpecMatch == InitMatch /\ [][NextMatch]_vars

\* the last call was find_matching_directory for the title, and it went to
\* fuzzy matching: no hint that exists, no mapping recorded
MatchesTheMatrix ==
    /\ call # None
    /\ call.fn = "find_matching_directory"
    /\ call.media_title = "The Matrix (1999)"
    /\ call.tier = 3

\* C17: fuzzy matching the title "The Matrix (1999)" against the candidates
\* "Matrix 1999" and "Inception" selects "Matrix 1999", with a similarity
\* ratio above the 0.9 acceptance threshold
C17_MatrixSelected ==
    MatchesTheMatrix
        => /\ call.result = path_join("/m1", "Matrix 1999")
           /\ ratio_greater(ratio(normalize_title(Chars("The Matrix (1999)")),
                                  normalize_title(Chars("Matrix 1999"))),
                            [num |-> 9, den |-> 10])

----------------------------------------------------------------------------
(* C18: a library of one populated root                                    *)

\* one root holds the two directories; the other configured folders are empty
WireDirs ==
    [r \in Roots |-> IF r = "/m1" THEN {"The Wire", "Breaking Bad"} ELSE {}]

\* only Breaking Bad holds poster.jpg
WireFiles ==
    [p \in MediaPaths(WireDirs) |->
        IF p[2] = "Breaking Bad" THEN {"poster.jpg"} ELSE {}]

InitWire ==
    /\ dirs = WireDirs
    /\ files = WireFiles
    /\ env = [ops |-> MaxOps, faults |-> 0, errors |-> MaxErrors, crashes |-> 0]
    /\ InitMemory

NextWire ==
    \/ Request
    \/ RequestStep
    \/ ScanStep
    \/ ThumbStep

SpecWire == InitWire /\ [][NextWire]_vars

\* C18: given one root folder containing the directories "The Wire" and
\* "Breaking Bad" where only "Breaking Bad" contains poster.jpg, the cache a
\* scan for poster saves has exactly two entries, Breaking Bad first and then
\* The Wire, with has_poster true and false
C18_WireExample ==
    LET key == _get_scan_key("movie", "poster")
        data == read_cache(cacheFile, key)
    IN  cacheFile[key] # None
            => /\ data.total = 2
               /\ Len(data.media_list) = 2
               /\ data.media_list[1].title = "Breaking Bad"
               /\ data.media_list[2].title = "The Wire"
               /\ data.media_list[1].has_poster
               /\ ~data.media_list[2].has_poster

\* a scan of movie posters ran to completion and its cache is on disk
C18_Witness ==
    LET key == _get_scan_key("movie", "poster")
    IN  /\ scanProgress[key] # None
        /\ scanProgress[key].status = "complete"
        /\ scanProgress[key].total = 2
        /\ cacheFile[key] # None
        /\ cacheFile[_get_scan_key("movie", "backdrop")] = None

----------------------------------------------------------------------------
(* C19: generate_clean_id on bounded titles                                *)

MaxTitle == 3

\* code points a title is made of: A, b, 7, dash, space, e with acute accent
TitleAlphabet == {65, 98, 55, 45, 32, 233}

TitleStrings == UNION {[1..n -> TitleAlphabet] : n \in 0..MaxTitle}

\* generate_clean_id of a title, and of its own result
GenerateCleanId ==
    \E title \in TitleStrings :
        /\ call = None
        /\ call' = [fn |-> "generate_clean_id", title |-> title,
                    result |-> generate_clean_id(title),
                    again |-> generate_clean_id(generate_clean_id(title))]
        /\ UNCHANGED <<_smb_health, now, ac, mapFile, dirs, files, cacheFile, ckptFile, unavail, thumbCache, scanLock,
                       scanProgress, thumbStarted, rq, sc, th, env, seen, fresh>>

SpecCleanId == InitAccessor /\ [][GenerateCleanId]_vars

\* C19: for all titles generate_clean_id is idempotent:
\* generate_clean_id(generate_clean_id(title)) = generate_clean_id(title)
C19_CleanIdIdempotent ==
    (call # None /\ call.fn = "generate_clean_id") => call.again = call.result

\* a title with a leading separator, a capital and an inner separator: the
\* first application lowers, substitutes and strips, the second changes nothing
C19_Witness ==
    /\ call # None
    /\ call.fn = "generate_clean_id"
    /\ call.title = <<32, 65, 32>>
    /\ call.result = <<97>>
    /\ call.again = <<97>>

----------------------------------------------------------------------------
(* C20: the progress record of a key                                       *)

\* the status of a progress record, "absent" when the key has none
StatusOf(progress) == IF progress = None THEN "absent" ELSE progress.status

\* a step of a request handler moves a request; a step of a scan thread does not
ByRequest == rq' # rq

ProgressTransition(k) ==
    LET before == StatusOf(scanProgress[k])
        after == StatusOf(scanProgress'[k])
    IN  /\ before # after
            => \/ before = "absent" /\ after = "scanning" /\ ByRequest
               \/ before = "scanning" /\ after \in {"complete", "error"} /\ ~ByRequest
               \/ /\ before \in {"complete", "error"}
                  /\ after = "scanning"
                  /\ ByRequest
        /\ (scanProgress'[k] # scanProgress[k] /\ ~ByRequest) => before = "scanning"

\* C20: per key the progress status changes only from absent to scanning (by
\* a request that starts a scan), from scanning to complete or to error (by the
\* scan thread) and from complete or error back to scanning (by a later
\* request); no other transition occurs, and a scan thread never modifies a
\* progress record whose status is not 'scanning'
C20_ProgressTransitions == [][\A k \in Keys : ProgressTransition(k)]_vars

----------------------------------------------------------------------------
(* C21: the progress table and the scan lock                               *)

\* request r reads the progress table in this step (line 663)
ReadsProgress(r) == rq[r].pc = "progress" /\ rq'[r] # rq[r]

\* the thread that takes this step holds the scan lock: only a request handler
\* ever takes it
HeldByStepper == \E r \in ReqIds : scanLock = r /\ rq'[r] # rq[r]

\* C21: every read and every write of the shared progress table, by request
\* handlers and by background scan threads alike, happens while the accessing
\* thread holds the mutex that guards the scan-start decision
C21_ProgressUnderLock ==
    [][/\ \A r \in ReqIds : ReadsProgress(r) => scanLock = r
       /\ scanProgress' # scanProgress => HeldByStepper]_vars

----------------------------------------------------------------------------
(* C22: what a 'complete' progress record stands for                       *)

\* the key's cache file holds as many entries as the completed scan counted
\* and the key has no checkpoint file
CompletionLeft(k) ==
    /\ cacheFile[k] # None
    /\ Len(read_cache(cacheFile, k).media_list) = scanProgress[k].total
    /\ ckptFile[k] = None

\* C22: a successful full scan saves the sorted final cache, deletes the
\* checkpoint and marks the progress 'complete', in that order; consequently,
\* whenever the progress status of a key is 'complete', the cache file of the
\* key has been written with all scanned entries and no checkpoint exists for
\* the key
C22_CompleteMeansSaved ==
    \A k \in Keys :
        (scanProgress[k] # None /\ scanProgress[k].status = "complete") => CompletionLeft(k)

----------------------------------------------------------------------------
(* C23: _maybe_start_thumb_caching, statement by statement                 *)

\* the cache a finished lightweight scan of the library left on disk
WireCache ==
    save_scan_cache([k \in Keys |-> None], "movie", "poster",
        SortEntries([i \in 1..2 |->
            LET media_dir == <<"The Wire", "Breaking Bad">>[i]
            IN  scan_single_directory(media_dir, path_join("/m1", media_dir), "poster",
                                      WireFiles[path_join("/m1", media_dir)], TRUE).entry]),
        2)

\* the process has just started: the cache file is on disk, memory is empty
InitGuard ==
    /\ dirs = WireDirs
    /\ files = WireFiles
    /\ env = [ops |-> MaxOps, faults |-> 0, errors |-> 0, crashes |-> 0]
    /\ ckptFile = [k \in Keys |-> None]
    /\ unavail = {}
    /\ thumbCache = {}
    /\ scanLock = 0
    /\ scanProgress = [k \in Keys |-> None]
    /\ thumbStarted = {}
    /\ rq = [r \in ReqIds |-> IdleRequest]
    /\ sc = [s \in ScanIds |-> IdleScan]
    /\ th = [t \in ThumbIds |-> IdleThumb]
    /\ seen = [k \in Keys |-> {}]
    /\ fresh = [k \in Keys |-> FALSE]
    /\ mapFile = <<>>
    /\ call = None
    /\ InitHealth
    /\ cacheFile = WireCache

\* get_artwork_data lines 649-652: the cache is there, and the handler calls
\* _maybe_start_thumb_caching with the list it loaded
LoadCached(r) ==
    LET cached == load_scan_cache("movie", "poster")
    IN  /\ env.ops > 0
        /\ rq[r].pc \in {"idle", "done"}
        /\ cached # None
        /\ env' = Spend("ops", 1)
        /\ rq' = [rq EXCEPT ![r] = [IdleRequest EXCEPT !.pc = "guard", !.media_type = "movie",
                                                       !.artwork_type = "poster",
                                                       !.ret = cached, !.via = "cache"]]
        /\ UNCHANGED <<_smb_health, now, ac, mapFile, call, dirs, files, cacheFile, ckptFile, unavail, thumbCache,
                       scanLock, scanProgress, thumbStarted, sc, th, seen, fresh>>

\* lines 59-61: if key in _thumb_cache_started: return
GuardCheck(r) ==
    /\ rq[r].pc = "guard"
    /\ rq' = [rq EXCEPT ![r] =
                 [@ EXCEPT !.pc = IF _get_scan_key(rq[r].media_type, rq[r].artwork_type)
                                         \in thumbStarted
                                  THEN "done" ELSE "start"]]
    /\ UNCHANGED <<_smb_health, now, ac, mapFile, call, dirs, files, cacheFile, ckptFile, unavail, thumbCache,
                   scanLock, scanProgress, thumbStarted, sc, th, env, seen, fresh>>

\* lines 62-71: the items that need thumbnails; if any, add the key and start
\* the thread
GuardStart(r) ==
    LET key == _get_scan_key(rq[r].media_type, rq[r].artwork_type)
        items == items_needing_thumbs(rq[r].ret.media_list)
    IN  /\ rq[r].pc = "start"
        /\ IF items # <<>>
           THEN /\ FreeThumbs # {}
                /\ thumbStarted' = thumbStarted \cup {key}
                /\ th' = [th EXCEPT ![Least(FreeThumbs)] =
                             [pc |-> "items", key |-> key, items |-> items,
                              idx |-> 1, loaded |-> None]]
           ELSE UNCHANGED <<thumbStarted, th>>
        /\ rq' = [rq EXCEPT ![r] = [@ EXCEPT !.pc = "done"]]
        /\ UNCHANGED <<_smb_health, now, ac, mapFile, call, dirs, files, cacheFile, ckptFile, unavail, thumbCache,
                       scanLock, scanProgress, sc, env, seen, fresh>>

GuardStep == \E r \in ReqIds : LoadCached(r) \/ GuardCheck(r) \/ GuardStart(r)

NextGuard ==
    \/ GuardStep
    \/ ThumbStep
    \/ RefreshRequest

SpecGuard == InitGuard /\ [][NextGuard]_vars

\* a _background_cache_thumbnails thread is started for key k in this step
ThumbThreadStarts(k) ==
    \E t \in ThumbIds : th[t].pc = "idle" /\ th'[t].pc # "idle" /\ th'[t].key = k

\* C23: the thumbnail backfill task is started at most once per key between
\* refreshes: whatever the interleaving of the callers of
\* _maybe_start_thumb_caching, no thread is started for a key whose guard is
\* set, and only refresh clears the guard
C23_OneBackfillPerKey ==
    [][\A k \in Keys :
          /\ ThumbThreadStarts(k) => k \notin thumbStarted
          /\ (k \in thumbStarted /\ k \notin thumbStarted')
                 => cacheFile'[k] = None /\ ckptFile'[k] = None]_vars

----------------------------------------------------------------------------
(* C24: the backfill's final save against a single-entry update            *)

NextBackfill ==
    \/ GuardStep
    \/ ThumbStep
    \/ Download

SpecBackfill == InitGuard /\ [][NextBackfill]_vars

\* thread t makes its final save in this step
FinalSave(t) == th[t].pc = "save" /\ th'[t].pc = "idle"

\* the cache file of the thread's key was written after the thread reloaded it
WrittenSinceReload(t) ==
    read_cache(cacheFile, th[t].key).media_list # th[t].loaded.media_list

\* C24: cache writes are unsynchronized whole-file read-modify-writes: when
\* update_single_cache_entry writes the cache file between the reload and the
\* final save of a running _background_cache_thumbnails, the final save
\* overwrites the file with the list the thread reloaded earlier, so the
\* foreground change is lost from the cache
C24_LostUpdate ==
    [][\A t \in ThumbIds :
          (FinalSave(t) /\ WrittenSinceReload(t))
              => LET saved == read_cache(cacheFile', th[t].key).media_list
                 IN  /\ Len(saved) = Len(th[t].loaded.media_list)
                     /\ \A i \in 1..Len(saved) :
                           /\ saved[i].has_artwork = th[t].loaded.media_list[i].has_artwork
                           /\ saved[i].has_poster = th[t].loaded.media_list[i].has_poster]_vars

\* the poster downloaded into The Wire is on disk, update_single_cache_entry
\* had recorded it, and after the backfill's final save the cache says again
\* that The Wire has no poster
C24_Witness ==
    LET data == read_cache(cacheFile, _get_scan_key("movie", "poster"))
    IN  /\ \A t \in ThumbIds : th[t].pc = "idle"
        /\ "poster.jpg" \in files[path_join("/m1", "The Wire")]
        /\ \E i \in 1..Len(data.media_list) :
              /\ data.media_list[i].title = "The Wire"
              /\ ~data.media_list[i].has_poster
              /\ ~data.media_list[i].has_artwork

----------------------------------------------------------------------------
(* incremental_refresh                                                     *)

RECURSIVE current_dirs_of(_, _, _)
\* lines 868-880: title -> full path over the root folders in order; a title
\* listed under two roots keeps the path of the later root
current_dirs_of(base_folders, i, current_dirs) ==
    IF i > Len(base_folders) THEN current_dirs
    ELSE IF ~safe_exists_root(base_folders[i], TRUE)
    THEN current_dirs_of(base_folders, i + 1, current_dirs)
    ELSE LET directories == {d \in safe_listdir_root(base_folders[i], TRUE) : ~is_hidden(d)}
         IN  current_dirs_of(base_folders, i + 1,
                 [media_dir \in directories |-> path_join(base_folders[i], media_dir)]
                     @@ current_dirs)

\* safe_isdir of a listed name: a directory has a listing of its own
safe_isdir(media_path) == media_path \in DOMAIN files

\* a variant that keeps every cached entry
keep_all(cached_list, removed_dirs) == cached_list

\* line 892: the cached entries minus the removed ones
kept_entries(cached_list, removed_dirs) ==
    SelectSeq(cached_list, LAMBDA item : item.title \notin removed_dirs)

RECURSIVE scan_new_dirs(_, _, _)
\* lines 895-899: the new names in sorted order, each scanned in full if it is
\* a directory; the entries and the thumbnails copied to the local cache
scan_new_dirs(todo, current_dirs, artwork_type) ==
    IF todo = <<>> THEN [entries |-> <<>>, copied |-> {}]
    ELSE LET media_path == current_dirs[Head(todo)]
             rest == scan_new_dirs(Tail(todo), current_dirs, artwork_type)
             found == scan_single_directory(Head(todo), media_path, artwork_type,
                                            safe_listdir_dir(media_path, TRUE), FALSE)
         IN  IF safe_isdir(media_path)
             THEN [entries |-> <<found.entry>> \o rest.entries,
                   copied |-> found.copied \cup rest.copied]
             ELSE rest

\* incremental_refresh on an existing cache, lines 864-908: the list it saves
\* and returns, and the thumbnails it copied
incremental_refresh(cached_list, media_type, artwork_type) ==
    LET cached_titles == {cached_list[i].title : i \in 1..Len(cached_list)}
        current_dirs == current_dirs_of(base_folders_of(media_type), 1, <<>>)
        new_dirs == DOMAIN current_dirs \ cached_titles
        removed_dirs == cached_titles \ DOMAIN current_dirs
        scanned == scan_new_dirs(SortNames(new_dirs), current_dirs, artwork_type)
    IN  [media_list |-> SortEntries(kept_entries(cached_list, removed_dirs) \o scanned.entries),
         copied |-> scanned.copied]

\* one call of incremental_refresh(movie_folders, 'poster'); without a cache it
\* goes on as get_artwork_data(use_cache=False), from the progress check
IncrementalRefresh ==
    LET cached == load_scan_cache("movie", "poster")
    IN  /\ env.ops > 0
        /\ env' = Spend("ops", 1)
        /\ IF cached = None
           THEN /\ FreeRequests # {}
                /\ rq' = [rq EXCEPT ![Least(FreeRequests)] =
                             [IdleRequest EXCEPT !.pc = "progress", !.media_type = "movie",
                                                 !.artwork_type = "poster"]]
                /\ call' = [fn |-> "incremental_refresh", op |-> env.ops, cached |-> FALSE]
                /\ UNCHANGED <<cacheFile, thumbCache>>
           ELSE \E done \in {incremental_refresh(cached.media_list, "movie", "poster")} :
                /\ cacheFile' = save_scan_cache(cacheFile, "movie", "poster",
                                                done.media_list, Len(done.media_list))
                /\ thumbCache' = thumbCache \cup done.copied
                /\ call' = [fn |-> "incremental_refresh", op |-> env.ops, cached |-> TRUE]
                /\ UNCHANGED rq
        /\ UNCHANGED <<_smb_health, now, ac, mapFile, dirs, files, ckptFile, unavail, scanLock, scanProgress,
                       thumbStarted, sc, th, seen, fresh>>

\* what may appear on the mount: a name under a movie root, as a directory
\* with these files or as a plain file
AppearingNames == {"alien", ".hidden", "The Wire"}

\* a directory (with a poster and its thumbnail) or a plain file appears
AppearOnMount ==
    \E base_folder \in {"/m1", "/m2"}, media_dir \in AppearingNames, isdir \in BOOLEAN :
        /\ env.ops > 0
        /\ media_dir \notin dirs[base_folder]
        /\ env' = Spend("ops", 1)
        /\ dirs' = [dirs EXCEPT ![base_folder] = @ \cup {media_dir}]
        /\ files' = IF isdir
                    THEN [p \in DOMAIN files \cup {path_join(base_folder, media_dir)} |->
                             IF p \in DOMAIN files THEN files[p]
                             ELSE {"poster.jpg", "poster-thumb.jpg"}]
                    ELSE files
        /\ UNCHANGED <<_smb_health, now, ac, mapFile, call, cacheFile, ckptFile, unavail, thumbCache, scanLock,
                       scanProgress, thumbStarted, rq, sc, th, seen, fresh>>

InitIncremental ==
    /\ dirs = WireDirs
    /\ files = WireFiles
    /\ env = [ops |-> MaxOps, faults |-> 0, errors |-> 0, crashes |-> MaxCrashes]
    /\ ckptFile = [k \in Keys |-> None]
    /\ unavail = {}
    /\ thumbCache = {}
    /\ scanLock = 0
    /\ scanProgress = [k \in Keys |-> None]
    /\ thumbStarted = {}
    /\ rq = [r \in ReqIds |-> IdleRequest]
    /\ sc = [s \in ScanIds |-> IdleScan]
    /\ th = [t \in ThumbIds |-> IdleThumb]
    /\ seen = [k \in Keys |-> {}]
    /\ fresh = [k \in Keys |-> FALSE]
    /\ mapFile = <<>>
    /\ call = None
    /\ InitHealth
    /\ cacheFile = WireCache

NextIncremental ==
    \/ IncrementalRefresh
    \/ AppearOnMount
    \/ RemoveDirectory

SpecIncremental == InitIncremental /\ [][NextIncremental]_vars


\* this step is a call of incremental_refresh that found a cache
RefreshesIncrementally ==
    call' # call /\ call'.fn = "incremental_refresh" /\ call'.cached

\* the names listed under the movie roots that are directories
ListedDirectories ==
    {d \in AllDirs("movie") :
        \E i \in 1..Len(movie_folders) :
            d \in dirs[movie_folders[i]] /\ path_join(movie_folders[i], d) \in DOMAIN files}

IncrementalResult ==
    LET k == _get_scan_key("movie", "poster")
        before == read_cache(cacheFile, k).media_list
        after == read_cache(cacheFile', k).media_list
    IN  /\ Titles(after) = (Titles(before) \cap AllDirs("movie"))
                               \cup (ListedDirectories \ Titles(before))
        /\ \A i \in 1..Len(after) :
              IF after[i].title \in Titles(before)
              THEN \E j \in 1..Len(before) : after[i] = before[j]
              ELSE /\ after[i].artwork # None
                   /\ after[i].artwork_dimensions # None
                   /\ after[i].artwork_last_modified # None
        /\ \A j \in 1..Len(before) :
              before[j].title \in AllDirs("movie")
                  => \E i \in 1..Len(after) : after[i] = before[j]
        /\ Sorted(after)
        /\ read_cache(cacheFile', k).total = Len(after)

\* directory names are unique within the root set: no name is listed under
\* two movie roots
UniqueNames ==
    \A i, j \in 1..Len(movie_folders) :
        i # j => dirs[movie_folders[i]] \cap dirs[movie_folders[j]] = {}

----------------------------------------------------------------------------
(* The order of a saved cache                                              *)

\* every writer of a scan cache over one library: the request path with its
\* scan, derivation and thumbnail threads, the unavailability toggle, the
\* single-entry update of a download, incremental refresh, and names that
\* come to the mount
NextWriters ==
    \/ NextWire
    \/ ToggleUnavailable
    \/ Download
    \/ IncrementalRefresh
    \/ AppearOnMount

SpecWriters == InitWire /\ [][NextWriters]_vars

\* C26: every persisted scan cache is sorted by the key
\* strip_leading_the(lower(title)), whichever operation wrote it: full scan,
\* derivation, incremental refresh, single-entry update, unavailability
\* propagation or thumbnail backfill
C26_CachesSorted ==
    \A k \in Keys :
        cacheFile[k] # None => Sorted(read_cache(cacheFile, k).media_list)

\* a cache on disk holds alien, which the scan met last, ahead of Breaking Bad
\* and The Wire, after an incremental refresh rewrote it
C26_Witness ==
    LET data == read_cache(cacheFile, _get_scan_key("movie", "poster"))
    IN  /\ cacheFile[_get_scan_key("movie", "poster")] # None
        /\ call # None
        /\ call.fn = "incremental_refresh"
        /\ call.cached
        /\ Len(data.media_list) >= 3
        /\ data.media_list[1].title = "alien"
        /\ data.media_list[2].title = "Breaking Bad"
        /\ data.media_list[3].title = "The Wire"


----------------------------------------------------------------------------
(* One entry per title                                                     *)

UniqueTitles(media_list) == Cardinality(Titles(media_list)) = Len(media_list)

\* C27: in every persisted scan cache and every persisted checkpoint the
\* entries are unique by title, whatever sequence of full scans (resumed ones
\* over several root folders included), incremental refreshes, derivations and
\* single-entry updates wrote them
C27_UniqueByTitle ==
    \A k \in Keys :
        /\ cacheFile[k] # None => UniqueTitles(read_cache(cacheFile, k).media_list)
        /\ ckptFile[k] # None => UniqueTitles(ckptFile[k].media_list)

\* The Wire is a directory under both movie roots, and a cache written since
\* alien came to the mount holds The Wire once
C27_Witness ==
    LET k == _get_scan_key("movie", "poster")
    IN  /\ path_join("/m1", "The Wire") \in DOMAIN files
        /\ path_join("/m2", "The Wire") \in DOMAIN files
        /\ cacheFile[k] # None
        /\ {"alien", "The Wire"} \subseteq Titles(read_cache(cacheFile, k).media_list)
        /\ UniqueTitles(read_cache(cacheFile, k).media_list)


----------------------------------------------------------------------------
(* The order of a full scan                                                *)

\* the scan thread s runs before and after the step
StaysRunning(s) == sc[s].pc # "idle" /\ sc'[s].pc # "idle"

\* the directories s itself has visited under the root folder, those taken
\* over from a checkpoint left out
VisitedUnder(s, base_folder) ==
    {sc[s].media_list[i].title : i \in
        {j \in 1..Len(sc[s].media_list) :
            /\ sc[s].media_list[j].title \notin sc[s].resumed
            /\ sc[s].media_list[j].path[1] = base_folder}}

\* the scan thread s writes its key's checkpoint in this step
WritesCheckpoint(s) ==
    /\ sc[s].pc = "dir"
    /\ sc'[s] # sc[s]
    /\ ckptFile'[sc[s].key] # ckptFile[sc[s].key]
    /\ ckptFile'[sc[s].key] # None

ScanOrder(s) ==
    LET k == sc[s].key
        base_folders == base_folders_of(k[1])
    IN  /\ StaysRunning(s) =>
              /\ sc'[s].folder >= sc[s].folder
              /\ sc[s].scanned_titles \subseteq sc'[s].scanned_titles
        /\ Visits(s) =>
              /\ \A i \in 1..Len(sc[s].media_list) :
                    sc[s].media_list[i].title \notin sc[s].resumed =>
                        \E f \in 1..sc[s].folder :
                            sc[s].media_list[i].path[1] = base_folders[f]
              /\ \A d \in VisitedUnder(s, base_folders[sc[s].folder]) :
                    StrLess(Chars(d), Chars(Head(sc[s].todo)))
        /\ WritesCheckpoint(s) =>
              /\ sc[s].scanned_titles \subseteq ckptFile'[k].scanned_titles
              /\ ckptFile[k] # None =>
                    ckptFile[k].scanned_titles \subseteq ckptFile'[k].scanned_titles

\* C28: within one full scan the root folders are processed in configured
\* order and the directories of a root are visited in ascending sorted name
\* order; the visited set in the successive checkpoints of the scan grows
\* monotonically
C28_ScanOrder == [][\A s \in ScanIds : ScanOrder(s)]_vars

\* a scan that has visited directories of both roots and written its batch
\* checkpoint has failed and written a second checkpoint after it
C28_Witness ==
    LET k == _get_scan_key("movie", "poster")
    IN  /\ ckptFile[k] # None
        /\ Cardinality(ckptFile[k].scanned_titles) >= BATCH_SIZE
        /\ "alien" \in ckptFile[k].scanned_titles
        /\ StatusOf(scanProgress[k]) = "error"


----------------------------------------------------------------------------
(* The remote cost of one scanned directory                                *)

\* what the one safe_listdir call of a directory can return: its file names,
\* or nothing when the call fails
ListingsOf(media_path) == {safe_listdir_dir(media_path, ok) : ok \in Outcomes}

\* the scan thread s visits a directory in this step with one listing call and
\* nothing else: the entry it appends is the one the names of that listing
\* give, no image was opened and no modification time read for it, no
\* thumbnail was copied to the local cache, and at most the listing failed
OneListingOnly(s) ==
    LET t == sc[s]
        media_dir == Head(t.todo)
        media_path == path_join(base_folders_of(t.key[1])[t.folder], media_dir)
        entry == sc'[s].media_list[Len(sc'[s].media_list)]
    IN  /\ Len(sc'[s].media_list) = Len(t.media_list) + 1
        /\ \E dir_files \in ListingsOf(media_path) :
              /\ entry.has_poster = has_type("poster", dir_files)
              /\ entry.has_logo = has_type("logo", dir_files)
              /\ entry.has_backdrop = has_type("backdrop", dir_files)
              /\ (entry.artwork # None) =
                    (\E i \in 1..Len(EXTS) :
                        artwork_name(file_prefix_of(t.key[2]), EXTS[i]) \in dir_files)
        /\ entry.artwork_dimensions = None
        /\ entry.artwork_last_modified = None
        /\ thumbCache' = thumbCache
        /\ env'.faults >= env.faults - 1

\* C29: during a full background scan each scanned directory costs exactly one
\* logical remote listing call and no other remote operation on its files: no
\* per-file existence check, no image read, no modification-time read and no
\* copy from the remote mount to the local cache
C29_OneListingPerDirectory == [][\A s \in ScanIds : Visits(s) => OneListingOnly(s)]_vars

\* a scan has visited Breaking Bad, which holds poster.jpg: the entry names the
\* artwork and carries neither dimensions nor a date
C29_Witness ==
    \E s \in ScanIds :
        /\ sc[s].pc # "idle"
        /\ \E i \in 1..Len(sc[s].media_list) :
              /\ sc[s].media_list[i].title = "Breaking Bad"
              /\ sc[s].media_list[i].artwork # None
              /\ sc[s].media_list[i].artwork_dimensions = None


----------------------------------------------------------------------------
(* The shared health record of the accessors                               *)

\* line 34: the number of consecutive errors from which a deadline is set
BACKOFF_FROM == 3
\* line 36: seconds of backoff per consecutive error
BACKOFF_STEP == 5
\* line 36: the longest backoff, in seconds
BACKOFF_MAX == 30

min(a, b) == IF a <= b THEN a ELSE b

\* what one attempt of the accessor's underlying call may do.  os.listdir
\* returns, or raises NotADirectoryError (errno 20), or raises BlockingIOError
\* or another OSError, which the accessor treats alike; os.path.exists and
\* os.path.isdir catch OSError themselves and always return
AttemptOutcomes(fn) ==
    IF fn = "safe_listdir" THEN {"ok", "ENOTDIR", "OSError"} ELSE {"ok"}

\* line 36: min(errors * 5, 30)
backoff_of(errors) == min(errors * BACKOFF_STEP, BACKOFF_MAX)

\* a thread enters safe_listdir, safe_exists or safe_isdir
AccessorCall(a) ==
    \E fn \in {"safe_listdir", "safe_exists", "safe_isdir"} :
        /\ ac[a].pc = "idle"
        /\ env.ops > 0
        /\ env' = Spend("ops", 1)
        /\ ac' = [ac EXCEPT ![a] = [IdleAccessor EXCEPT !.pc = "backoff", !.fn = fn]]
        /\ UNCHANGED <<_smb_health, now>>

\* _smb_backoff, lines 21-27: sleep until the deadline read at this moment
SmbBackoff(a) ==
    /\ ac[a].pc = "backoff"
    /\ ac' = [ac EXCEPT ![a] =
                 IF _smb_health.backoff_until > now
                 THEN [@ EXCEPT !.pc = "sleep", !.wake = _smb_health.backoff_until,
                                !.after = "attempt"]
                 ELSE [@ EXCEPT !.pc = "attempt"]]
    /\ UNCHANGED <<_smb_health, now, env>>

\* time.sleep returns
Wake(a) ==
    /\ ac[a].pc = "sleep"
    /\ now >= ac[a].wake
    /\ ac' = [ac EXCEPT ![a] = [@ EXCEPT !.pc = ac[a].after, !.wake = 0, !.after = ""]]
    /\ UNCHANGED <<_smb_health, now, env>>

\* one attempt: the underlying call, then _smb_record_success (line 42) and the
\* return, or the return of an empty list on errno 20 (lines 92-93), or lines
\* 31-32 of _smb_record_error
Attempt(a) ==
    \E outcome \in AttemptOutcomes(ac[a].fn) :
        /\ ac[a].pc = "attempt"
        /\ CASE outcome = "ok" ->
                  /\ _smb_health' = [_smb_health EXCEPT !.consecutive_errors = 0]
                  /\ ac' = [ac EXCEPT ![a] = [IdleAccessor EXCEPT !.outcome = outcome]]
             [] outcome = "ENOTDIR" ->
                  /\ _smb_health' = _smb_health
                  /\ ac' = [ac EXCEPT ![a] = [IdleAccessor EXCEPT !.outcome = "raised"]]
             [] OTHER ->
                  /\ _smb_health' = [_smb_health EXCEPT !.consecutive_errors = @ + 1]
                  /\ ac' = [ac EXCEPT ![a] = [@ EXCEPT !.pc = "read", !.outcome = "raised"]]
        /\ UNCHANGED <<now, env>>

\* lines 33-34 of _smb_record_error: the counter is read again
ReadErrors(a) ==
    /\ ac[a].pc = "read"
    /\ ac' = [ac EXCEPT ![a] =
                 IF _smb_health.consecutive_errors >= BACKOFF_FROM
                 THEN [@ EXCEPT !.pc = "deadline", !.errors = _smb_health.consecutive_errors]
                 ELSE [@ EXCEPT !.pc = "retry"]]
    /\ UNCHANGED <<_smb_health, now, env>>

\* lines 36-37 of _smb_record_error
SetDeadline(a) ==
    /\ ac[a].pc = "deadline"
    /\ _smb_health' = [_smb_health EXCEPT !.backoff_until = now + backoff_of(ac[a].errors)]
    /\ ac' = [ac EXCEPT ![a] = [@ EXCEPT !.pc = "retry", !.errors = 0]]
    /\ UNCHANGED <<now, env>>

\* after _smb_record_error: sleep and try again while attempts are left, else
\* return the degraded value
Retry(a) ==
    /\ ac[a].pc = "retry"
    /\ ac' = [ac EXCEPT ![a] =
                 IF ac[a].attempt < retries - 1
                 THEN [@ EXCEPT !.pc = "sleep", !.wake = now + (ac[a].attempt + 1),
                                !.after = "backoff", !.attempt = @ + 1]
                 ELSE [IdleAccessor EXCEPT !.outcome = ac[a].outcome]]
    /\ UNCHANGED <<_smb_health, now, env>>

\* time passes until the next sleeping thread is due
Tick ==
    LET due == {ac[a].wake : a \in {b \in AccIds : ac[b].pc = "sleep" /\ ac[b].wake > now}}
    IN  /\ due # {}
        /\ now' = CHOOSE w \in due : \A v \in due : w <= v
        /\ UNCHANGED <<_smb_health, ac, env>>

AccessorStep ==
    \E a \in AccIds :
        \/ AccessorCall(a)
        \/ SmbBackoff(a)
        \/ Wake(a)
        \/ Attempt(a)
        \/ ReadErrors(a)
        \/ SetDeadline(a)
        \/ Retry(a)

NextHealth ==
    \/ /\ AccessorStep
       /\ UNCHANGED <<mapFile, call, dirs, files, cacheFile, ckptFile, unavail, thumbCache,
                      scanLock, scanProgress, thumbStarted, rq, sc, th, seen, fresh>>
    \/ /\ Tick
       /\ UNCHANGED <<mapFile, call, dirs, files, cacheFile, ckptFile, unavail, thumbCache,
                      scanLock, scanProgress, thumbStarted, rq, sc, th, seen, fresh>>

SpecHealth == InitWire /\ [][NextHealth]_vars

\* the thread makes an attempt in this step
Attempts(a) == ac[a].pc = "attempt" /\ ac'[a] # ac[a]

HealthStep ==
    /\ \A a \in AccIds :
          Attempts(a) =>
              _smb_health'.consecutive_errors =
                  IF ac'[a].outcome = "ok" THEN 0 ELSE _smb_health.consecutive_errors + 1
    /\ (\A a \in AccIds : ~Attempts(a)) =>
          _smb_health'.consecutive_errors = _smb_health.consecutive_errors
    /\ _smb_health'.backoff_until # _smb_health.backoff_until =>
          /\ _smb_health.consecutive_errors >= BACKOFF_FROM
          /\ _smb_health'.backoff_until =
                 now + min(BACKOFF_STEP * _smb_health.consecutive_errors, BACKOFF_MAX)
          /\ _smb_health'.backoff_until <= now + BACKOFF_MAX

\* C30: the shared health counter is the number of failed attempts since the
\* last successful accessor call: each failed attempt adds one to it and each
\* successful call sets it to zero; a backoff deadline is set only by a failed
\* attempt that brings the counter to 3 or more, and it is then exactly
\* now + min(5 * counter, 30) seconds
C30_HealthCounter == [][HealthStep]_vars


----------------------------------------------------------------------------
(* A damaged cache file                                                    *)

\* the keys of the document save_scan_cache writes
DocumentKeys == {"media_list", "total", "timestamp"}

\* the cache file of key k is there and is not the expected document
Corrupt(k) ==
    /\ cacheFile[k] # None
    /\ \/ cacheFile[k] = Truncated
       \/ ~(DocumentKeys \subseteq DOMAIN cacheFile[k])

\* a cache file on disk is damaged: cut short, or left without one of its keys
CorruptCache ==
    \E k \in CallKeys :
        /\ env.ops > 0
        /\ cacheFile[k] # None
        /\ ~Corrupt(k)
        /\ env' = Spend("ops", 1)
        /\ \E damaged \in {Truncated} \cup
                          {[f \in DOMAIN cacheFile[k] \ {gone} |-> cacheFile[k][f]] :
                               gone \in DocumentKeys} :
              cacheFile' = [cacheFile EXCEPT ![k] = damaged]
        /\ UNCHANGED <<_smb_health, now, ac, mapFile, call, dirs, files, ckptFile, unavail,
                       thumbCache, scanLock, scanProgress, thumbStarted, rq, sc, th, seen,
                       fresh>>

NextCorrupt ==
    \/ NextWire
    \/ CorruptCache

SpecCorrupt == InitWire /\ [][NextCorrupt]_vars

\* the handler r runs its first lines, 640-659, in this step
Calls(r) == rq[r].pc \in {"idle", "done"} /\ rq'[r] # rq[r]

\* the key the handler r works on after the step
KeyOf(r) == _get_scan_key(rq'[r].media_type, rq'[r].artwork_type)

CorruptIsAbsent(r) ==
    /\ (Calls(r) /\ Corrupt(KeyOf(r))) =>
          /\ load_scan_cache(KeyOf(r)[1], KeyOf(r)[2]) = None
          /\ \/ rq'[r].pc = "done" /\ rq'[r].via = "derived"
             \/ rq'[r].pc = "progress"
    /\ (rq[r].pc = "locked" /\ rq'[r] # rq[r] /\ Corrupt(KeyOf(r))) =>
          /\ rq'[r].via = "started"
          /\ \E s \in ScanIds : sc[s].pc = "idle" /\ sc'[s].key = KeyOf(r)

----------------------------------------------------------------------------
(* "In progress" answers                                                   *)

\* the handler r decides in this step to answer "in progress"
AnswersInProgress(r) == rq[r].ret # InProgress /\ rq'[r].ret = InProgress

\* C32: whenever get_artwork_data answers "in progress" for a key, a progress
\* record of that key exists with status scanning, also when the lock was not
\* acquired because a request for another key holds it
C32_InProgressHasRecord ==
    [][\A r \in ReqIds :
          AnswersInProgress(r) => StatusOf(scanProgress'[KeyOf(r)]) = "scanning"]_vars

----------------------------------------------------------------------------
(* C33: the request after a completed scan, for any content of the roots   *)

\* contents of the roots: the two-directory library, a library with a hidden
\* directory only, and roots that hold nothing
Contents ==
    {WireDirs,
     [r \in Roots |-> IF r = "/m1" THEN {"@eaDir"} ELSE {}],
     [r \in Roots |-> {}]}

InitContents ==
    /\ dirs \in Contents
    /\ files = [p \in MediaPaths(dirs) |-> IF p[2] = "Breaking Bad" THEN {"poster.jpg"} ELSE {}]
    /\ env = [ops |-> MaxOps, faults |-> 0, errors |-> MaxErrors, crashes |-> 0]
    /\ InitMemory

SpecContents == InitContents /\ [][NextWire]_vars

\* the handler r enters get_artwork_data for a key whose progress record says
\* 'complete'
CallsAfterComplete(r) ==
    Calls(r) /\ StatusOf(scanProgress[KeyOf(r)]) = "complete"

\* the call returns data at once
ReturnsData(r) ==
    /\ rq'[r].pc = "done"
    /\ rq'[r].ret \notin {None, InProgress}

\* C33: after a full scan of a key has finished with status 'complete', the
\* next get_artwork_data call for that key returns present data and starts no
\* other scan, whatever the roots contain, roots without directories included
C33_CompleteThenPresent ==
    [][\A r \in ReqIds : CallsAfterComplete(r) => ReturnsData(r)]_vars

----------------------------------------------------------------------------
(* C34: a completed scan when remote calls fail for a while                *)

\* remote calls of a scan that fail on every attempt, per run
MaxFaults == 1

InitFaults ==
    /\ dirs = WireDirs
    /\ files = WireFiles
    /\ env = [ops |-> MaxOps, faults |-> MaxFaults, errors |-> MaxErrors, crashes |-> 0]
    /\ InitMemory

SpecFaults == InitFaults /\ [][NextWire]_vars

\* a scan thread sets the progress status of the key k to 'complete'
Completes(k) ==
    /\ StatusOf(scanProgress[k]) # "complete"
    /\ StatusOf(scanProgress'[k]) = "complete"

\* the saved cache of k names exactly the visible directories of the roots
CacheNamesAll(k) ==
    /\ cacheFile'[k] # None
    /\ Titles(read_cache(cacheFile', k).media_list) = AllDirs(k[1])

\* C34: a full scan that ends with progress status 'complete' has saved a cache
\* whose titles are exactly the non-hidden, non-system directory names of the
\* root folders, also when existence checks or listings fail transiently
\* during the scan
C34_CompleteScanHasAll == [][\A k \in Keys : Completes(k) => CacheNamesAll(k)]_vars

----------------------------------------------------------------------------
(* C35: a download that fails                                              *)

\* select_artwork with a directory given, lines 1393-1409, when
\* save_artwork_and_thumbnail returns None: the removal loop has run (a file
\* that cannot be removed is logged and left, lines 1258-1284; busy are the
\* files it left), then the response was not 200 or
\* requests.get raised (stage "response"), or the artwork was written and
\* Image.open or the thumbnail save raised (stage "thumbnail"); the caller
\* flashes the error and leaves the caches alone
DownloadFails ==
    \E artwork_type \in {"poster"}, save_dir \in {<<"/m1", "Breaking Bad">>},
       stage \in {"response", "thumbnail"} :
        /\ env.ops > 0
        /\ save_dir \in DOMAIN files
        /\ env' = Spend("ops", 1)
        /\ \E busy \in SUBSET (files[save_dir] \ removed(files[save_dir], artwork_type)) :
              files' = [files EXCEPT ![save_dir] =
                        removed(@, artwork_type) \cup busy
                        \cup (IF stage = "thumbnail" THEN {saved_artwork_name(artwork_type)}
                              ELSE {})]
        /\ call' = [fn |-> "save_artwork_and_thumbnail", op |-> env.ops, save_dir |-> save_dir,
                    artwork_type |-> artwork_type, result |-> None]
        /\ UNCHANGED <<_smb_health, now, ac, mapFile, dirs, cacheFile, ckptFile, unavail, thumbCache,
                       scanLock, scanProgress, thumbStarted, rq, sc, th, seen, fresh>>

NextFailedDownload ==
    \/ NextWire
    \/ DownloadFails

SpecFailedDownload == Init /\ [][NextFailedDownload]_vars

\* save_artwork_and_thumbnail returns failure in this step
ReturnsFailure ==
    /\ call' # call
    /\ call' # None
    /\ call'.fn = "save_artwork_and_thumbnail"
    /\ call'.result = None

\* the artwork and thumbnail files of the type that the directory held before
\* the call are still there after it
OldArtworkKept ==
    LET save_dir == call'.save_dir
    IN  (files[save_dir] \ removed(files[save_dir], call'.artwork_type)) \subseteq files'[save_dir]

\* C35: when save_artwork_and_thumbnail returns failure, the artwork and
\* thumbnail files that the target directory held before the call still exist
\* afterwards
C35_FailureKeepsFiles == [][ReturnsFailure => OldArtworkKept]_vars

----------------------------------------------------------------------------
(* C36: what refresh leaves alone                                          *)

\* cache file, checkpoint file and thumbnail-backfill guard of the key k are
\* the same after the step
KeyUntouched(k) ==
    /\ cacheFile'[k] = cacheFile[k]
    /\ ckptFile'[k] = ckptFile[k]
    /\ (k \in thumbStarted') = (k \in thumbStarted)

\* C36: refresh(m, a) changes only state of the key (m, a): cache, checkpoint
\* and thumbnail-backfill guard of every other key, the sibling artwork types
\* of m among them, are left unchanged
C36_RefreshOnlyItsKey ==
    [][\A a \in {"poster", "backdrop"} :
          Refresh("movie", a) =>
              \A k \in Keys \ {_get_scan_key("movie", a)} : KeyUntouched(k)]_vars

----------------------------------------------------------------------------
(* C37: the two counters of a progress record                              *)

\* a progress record that carries both counters
HasCounters(progress) ==
    progress # None /\ {"scanned", "total"} \subseteq DOMAIN progress

\* C37: in every progress record that carries both counters, scanned <= total,
\* also during a scan resumed from a checkpoint while root folders are still
\* being enumerated
C37_ScannedAtMostTotal ==
    \A k \in Keys :
        HasCounters(scanProgress[k]) => scanProgress[k].scanned <= scanProgress[k].total

----------------------------------------------------------------------------
(* C38: has_artwork and the shared flag of the cache's own type            *)

\* every entry of the document agrees on has_artwork and has_<artwork_type>
FlagsAgree(data, artwork_type) ==
    \A i \in 1..Len(data.media_list) :
        data.media_list[i].has_artwork = data.media_list[i][has_key_of(artwork_type)]

\* C38: in every entry of a cache for key (m, a), has_artwork equals has_<a> of
\* the same entry, for entries made by a lightweight or full directory scan, by
\* derivation and by single-entry update
C38_HasArtworkIsHasType ==
    \A k \in Keys :
        (cacheFile[k] # None /\ ~Corrupt(k)) => FlagsAgree(read_cache(cacheFile, k), k[2])

----------------------------------------------------------------------------
(* C39: a started scan ends                                                *)

\* the statements of one _background_scan thread that raise nothing
ScanThread(s) == ScanLoad(s) \/ ScanRoot(s) \/ ScanDir(s) \/ ScanSave(s) \/ ScanComplete(s)

\* every scan thread that can run is scheduled again and again; exceptions and
\* failing remote calls and writes happen or not, without any fairness
\* requests for one key, also concurrently
RequestPoster == \E r \in ReqIds : Call(r, "movie", "poster")

NextLive ==
    \/ RequestPoster
    \/ RequestStep
    \/ ScanStep

\* where the thread s stands in _background_scan; every statement moves it
ScanPosition(s) == <<sc[s].pc, sc[s].folder, sc[s].todo>>

\* weak fairness of the thread s, WF_ScanPosition(s)(ScanThread(s)), with its
\* ENABLED written out: a thread that is not idle can always execute its next
\* statement, so s is idle again and again or executes a statement again and
\* again
FairThread(s) ==
    \/ []<>(sc[s].pc = "idle")
    \/ []<><<ScanThread(s)>>_(ScanPosition(s))

SpecLive == InitFaults /\ [][NextLive]_vars /\ \A s \in ScanIds : FairThread(s)

\* C39: every started background scan eventually leaves 'scanning': under fair
\* scheduling and finitely many directories the progress status of its key
\* becomes 'complete' or 'error', whatever fails in the accessors or in the
\* cache and checkpoint writes
C39_ScanEnds ==
    \A k \in {_get_scan_key("movie", "poster")} :
        (StatusOf(scanProgress[k]) = "scanning")
            ~> (StatusOf(scanProgress[k]) \in {"complete", "error"})

\* a scan has ended in 'complete' after a scan of the run raised and a remote
\* call or a write of the run failed
C39_Witness ==
    /\ env.faults < MaxFaults
    /\ env.errors < MaxErrors
    /\ StatusOf(scanProgress[_get_scan_key("movie", "poster")]) = "complete"

----------------------------------------------------------------------------
(* C40: the two halves of a checkpoint                                     *)

\* C40: in every persisted checkpoint the visited set scanned_titles is exactly
\* the set of titles of the entries of the checkpoint's partial list, for a
\* checkpoint written at a batch boundary and for one written by the error
\* handler
C40_CheckpointHalvesAgree ==
    \A k \in Keys :
        ckptFile[k] # None => ckptFile[k].scanned_titles = Titles(ckptFile[k].media_list)

\* the error handler has written a checkpoint that holds at least one batch,
\* after the batch boundary had written one
C40_Witness ==
    \E k \in Keys :
        /\ env.errors < MaxErrors
        /\ ckptFile[k] # None
        /\ Len(ckptFile[k].media_list) >= BATCH_SIZE
        /\ StatusOf(scanProgress[k]) = "error"

====
